---------------------------- MODULE Spec2Model ----------------------------
(***************************************************************************)
(* A model of the redisgl web viewer: the websocket wire decoder           *)
(* (redis.js), the dispatch loop, key routing registry and entity          *)
(* lifecycle (simulator.js) and the camera image streams (camera.js).      *)
(*                                                                         *)
(* Strings are sequences of character codes (String.fromCharCode maps one  *)
(* byte to the character of the same code), buffers are sequences of bytes *)
(* and buffer offsets are 0-based as in the source.                        *)
(***************************************************************************)
EXTENDS Integers, Sequences, FiniteSets, TLC

\* ------------------------------------------------------------------------
\* Generic helpers
\* ------------------------------------------------------------------------

Min(a, b) == IF a < b THEN a ELSE b

\* s.startsWith(p)
StartsWith(s, p) == Len(p) <= Len(s) /\ SubSeq(s, 1, Len(p)) = p

\* the members of a sequence
Range(s) == { s[i] : i \in DOMAIN s }

\* bytes [from, to) of a buffer, both offsets 0-based and clamped to the buffer
\* (ArrayBuffer.prototype.slice)
Slice(buffer, from, to) == SubSeq(buffer, Min(from, Len(buffer)) + 1, Min(to, Len(buffer)))

\* ------------------------------------------------------------------------
\* redis.js: the wire decoder
\* ------------------------------------------------------------------------

\* Every length or count of 2^24 or more is kept as 2^24: it is past the end of
\* every buffer of the model, and the decoder only compares it with the buffer
\* length or adds it to an offset.
Huge == 16777216

Sat(n) == IF n > Huge THEN Huge ELSE n

\* DataView(buffer, idx).getUintN(): big-endian, n bytes at offset idx.
\* ok = FALSE is the RangeError of a view or a read outside the buffer.
RECURSIVE BigEndian(_, _, _)
BigEndian(buffer, idx, n) ==
    IF n = 0 THEN 0
    ELSE LET hi == BigEndian(buffer, idx, n - 1)
             lo == buffer[idx + n]
         IN  IF hi >= Huge \div 256 THEN Huge ELSE hi * 256 + lo

\* the same read taking the bytes in little-endian order
GetUintLittleEndian(buffer, idx, n) ==
    IF idx + n > Len(buffer)
    THEN [ok |-> FALSE, v |-> 0]
    ELSE [ok |-> TRUE,
          v |-> BigEndian([i \in 1..n |-> buffer[idx + n + 1 - i]], 0, n)]

GetUint(buffer, idx, n) ==
    IF idx + n > Len(buffer)
    THEN [ok |-> FALSE, v |-> 0]
    ELSE [ok |-> TRUE, v |-> BigEndian(buffer, idx, n)]

Thrown == [st |-> "throw"]

Undefined == [st |-> "undefined"]

Text(s) == [t |-> "string", v |-> s]

Binary(b) == [t |-> "binary", v |-> b]

\* the branch of parsePayload that yields a binary payload (buffer.slice)
ParseBinary(buffer, idx, lenPayload) ==
    [st |-> "ok", idx |-> Sat(idx + lenPayload),
     val |-> Binary(Slice(buffer, idx, idx + lenPayload))]

\* the branch of parsePayload that yields a string (new Uint8Array(buffer, idx, len))
ParseString(buffer, idx, lenPayload) ==
    IF idx + lenPayload > Len(buffer) THEN Thrown
    ELSE [st |-> "ok", idx |-> idx + lenPayload,
          val |-> Text(SubSeq(buffer, idx + 1, idx + lenPayload))]

\* the payload type: the low 7 bits of the tag byte
PayloadType(tag) == tag % 128

\* function parsePayload(buffer, idx): [idx', payload], undefined for a type
\* other than 1 and 2, or a thrown RangeError
ParsePayload(buffer, idx) ==
    LET type == GetUint(buffer, idx, 1)
        len1 == GetUint(buffer, idx + 1, 1)
        len2 == GetUint(buffer, idx + 2, 2)
        len8 == GetUint(buffer, idx + 2, 8)
        lenOk == /\ type.ok /\ len1.ok
                 /\ (len1.v = 126 => len2.ok)
                 /\ (len1.v = 127 => len8.ok)
        lenPayload == IF len1.v = 126 THEN len2.v
                      ELSE IF len1.v = 127 THEN len8.v
                      ELSE len1.v
        start == IF len1.v = 126 THEN idx + 4
                 ELSE IF len1.v = 127 THEN idx + 10
                 ELSE idx + 2
    IN  IF ~lenOk THEN Thrown
        ELSE IF PayloadType(type.v) = 1 THEN ParseString(buffer, start, lenPayload)
        ELSE IF PayloadType(type.v) = 2 THEN ParseBinary(buffer, start, lenPayload)
        ELSE Undefined

\* ToPropertyKey of a payload: a string is itself, an ArrayBuffer is
\* "[object ArrayBuffer]"
ObjectArrayBuffer ==
    <<91, 111, 98, 106, 101, 99, 116, 32, 65, 114, 114, 97, 121, 66, 117, 102, 102, 101, 114, 93>>

PropertyKey(payload) == IF payload.t = "string" THEN payload.v ELSE ObjectArrayBuffer

IsDigits(s) == \A i \in DOMAIN s : s[i] \in 48..57

\* a < b for two canonical numeric strings
NumLess(a, b) ==
    \/ Len(a) < Len(b)
    \/ /\ Len(a) = Len(b)
       /\ \E i \in DOMAIN a : /\ a[i] < b[i]
                              /\ \A j \in 1..(i - 1) : a[j] = b[j]

\* "4294967294", the largest array index
MaxArrayIndex == <<52, 50, 57, 52, 57, 54, 55, 50, 57, 52>>

\* a property name that is an array index: the object lists these first, in
\* ascending numeric order, then the other names in insertion order
IsArrayIndex(s) ==
    /\ Len(s) >= 1
    /\ IsDigits(s)
    /\ (Len(s) > 1 => s[1] # 48)
    /\ ~NumLess(MaxArrayIndex, s)

ObjHas(obj, key) == \E i \in DOMAIN obj : obj[i].key = key

\* obj[key] = val on a plain object, kept as the sequence of its own
\* properties in enumeration order (for ... in)
ObjSet(obj, key, val) ==
    IF ObjHas(obj, key)
    THEN [i \in DOMAIN obj |-> IF obj[i].key = key THEN [key |-> key, val |-> val] ELSE obj[i]]
    ELSE IF IsArrayIndex(key)
    THEN LET before == { i \in DOMAIN obj : IsArrayIndex(obj[i].key) /\ NumLess(obj[i].key, key) }
             n == Cardinality(before)
         IN  SubSeq(obj, 1, n) \o <<[key |-> key, val |-> val]>> \o SubSeq(obj, n + 1, Len(obj))
    ELSE Append(obj, [key |-> key, val |-> val])

\* the state of parseMessage when an error leaves it: the pairs and keys read
\* so far, which no caller receives
Failed(updateKeyVals, deleteKeys) ==
    [st |-> "throw", toUpdate |-> updateKeyVals, toDelete |-> deleteKeys]

\* the update loop of parseMessage: numUpdates (key, value) pairs from idx
RECURSIVE ParseUpdates(_, _, _, _)
ParseUpdates(buffer, idx, numUpdates, updateKeyVals) ==
    LET Value(idxKey, idxVal) ==
            IF idxVal.st # "ok" THEN [st |-> "throw", obj |-> updateKeyVals]
            ELSE ParseUpdates(buffer, idxVal.idx, numUpdates - 1,
                              ObjSet(updateKeyVals, PropertyKey(idxKey.val), idxVal.val))
        Key(idxKey) ==
            IF idxKey.st # "ok" THEN [st |-> "throw", obj |-> updateKeyVals]
            ELSE Value(idxKey, ParsePayload(buffer, idxKey.idx))
    IN  IF numUpdates = 0 THEN [st |-> "ok", idx |-> idx, obj |-> updateKeyVals]
        ELSE Key(ParsePayload(buffer, idx))

\* the delete loop of parseMessage: numDeletes keys from idx
RECURSIVE ParseDeletes(_, _, _, _)
ParseDeletes(buffer, idx, numDeletes, deleteKeys) ==
    LET Key(idxKey) ==
            IF idxKey.st # "ok" THEN [st |-> "throw", keys |-> deleteKeys]
            ELSE ParseDeletes(buffer, idxKey.idx, numDeletes - 1, Append(deleteKeys, idxKey.val))
    IN  IF numDeletes = 0 THEN [st |-> "ok", idx |-> idx, keys |-> deleteKeys]
        ELSE Key(ParsePayload(buffer, idx))

\* export function parseMessage(buffer): {toUpdate, toDelete} or a thrown error
ParseMessage(buffer) ==
    LET Deleted(ups, dels) ==
            IF dels.st # "ok" THEN Failed(ups.obj, dels.keys)
            ELSE [st |-> "ok", toUpdate |-> ups.obj, toDelete |-> dels.keys]
        Deletes(ups, numDeletes) ==
            IF ~numDeletes.ok THEN Failed(ups.obj, <<>>)
            ELSE Deleted(ups, ParseDeletes(buffer, ups.idx + 4, numDeletes.v, <<>>))
        Updated(ups) ==
            IF ups.st # "ok" THEN Failed(ups.obj, <<>>)
            ELSE Deletes(ups, GetUint(buffer, ups.idx, 4))
        Updates(numUpdates) ==
            IF ~numUpdates.ok THEN Failed(<<>>, <<>>)
            ELSE Updated(ParseUpdates(buffer, 4, numUpdates.v, <<>>))
    IN  Updates(GetUint(buffer, 0, 4))

\* ------------------------------------------------------------------------
\* The producer's side of the wire format
\* ------------------------------------------------------------------------

\* n as k big-endian bytes
RECURSIVE UintBytes(_, _)
UintBytes(n, k) == IF k = 0 THEN <<>> ELSE Append(UintBytes(n \div 256, k - 1), n % 256)

\* the three-tier length field
EncodeLength(n) ==
    IF n < 126 THEN <<n>>
    ELSE IF n < 65536 THEN <<126>> \o UintBytes(n, 2)
    ELSE <<127>> \o UintBytes(n, 8)

\* one payload: type tag (1 text, 2 binary), length, raw bytes
EncodePayload(p) ==
    <<IF p.t = "string" THEN 1 ELSE 2>> \o EncodeLength(Len(p.v)) \o p.v

RECURSIVE EncodeUpdates(_)
EncodeUpdates(updates) ==
    IF updates = <<>> THEN <<>>
    ELSE EncodePayload(Text(Head(updates).key)) \o EncodePayload(Head(updates).val)
         \o EncodeUpdates(Tail(updates))

RECURSIVE EncodeDeletes(_)
EncodeDeletes(deletes) ==
    IF deletes = <<>> THEN <<>>
    ELSE EncodePayload(Head(deletes)) \o EncodeDeletes(Tail(deletes))

\* a batch on the wire: update count, (key, value) pairs, delete count, keys
EncodeMessage(batch) ==
    UintBytes(Len(batch.updates), 4) \o EncodeUpdates(batch.updates)
    \o UintBytes(Len(batch.deletes), 4) \o EncodeDeletes(batch.deletes)

\* ------------------------------------------------------------------------
\* redis.js: values and the key/value forms of the page
\* ------------------------------------------------------------------------

\* the value undefined, written as a string of one code that no character
\* has, and the string it converts to
UndefinedVal == <<-1>>

UndefinedString == <<117, 110, 100, 101, 102, 105, 110, 101, 100>>

\* String(x) for a string or undefined
Str(x) == IF x = UndefinedVal THEN UndefinedString ELSE x

\* a 2D array of strings
Matrix(rows) == [t |-> "matrix", v |-> rows]

\* a < b for two strings (by code units)
StrLess(a, b) ==
    \/ /\ Len(a) < Len(b)
       /\ SubSeq(b, 1, Len(a)) = a
    \/ \E i \in 1..Min(Len(a), Len(b)) : /\ a[i] < b[i]
                                        /\ \A j \in 1..(i - 1) : a[j] = b[j]

\* the strings of a set in ascending order
RECURSIVE Sorted(_)
Sorted(S) ==
    IF S = {} THEN <<>>
    ELSE LET m == CHOOSE x \in S : \A y \in S \ {x} : StrLess(x, y)
         IN  <<m>> \o Sorted(S \ {m})

\* string.trim(), for the space character
RECURSIVE Trim(_)
Trim(s) ==
    IF s = <<>> THEN s
    ELSE IF Head(s) = 32 THEN Trim(Tail(s))
    ELSE IF s[Len(s)] = 32 THEN Trim(SubSeq(s, 1, Len(s) - 1))
    ELSE s

\* string.split(sep) for a one-character separator
RECURSIVE Split(_, _)
Split(s, sep) ==
    IF \A i \in DOMAIN s : s[i] # sep THEN <<s>>
    ELSE LET i == CHOOSE k \in DOMAIN s : s[k] = sep /\ \A j \in 1..(k - 1) : s[j] # sep
         IN  <<SubSeq(s, 1, i - 1)>> \o Split(SubSeq(s, i + 1, Len(s)), sep)

\* export function stringToMatrix(string, false)
StringToMatrix(string) ==
    LET rows == Split(Trim(string), 59)
    IN  Matrix([i \in DOMAIN rows |-> Split(Trim(rows[i]), 32)])

\* export function isNumeric(val): parseFloat(val) is a number. parseFloat
\* skips leading blanks and reads a sign, digits and a fraction; an
\* ArrayBuffer converts to "[object ArrayBuffer]".
IsNumeric(val) ==
    /\ val.t = "string"
    /\ LET s == Trim(val.v)
           u == IF s # <<>> /\ Head(s) \in {43, 45} THEN Tail(s) ELSE s
       IN  /\ u # <<>>
           /\ \/ Head(u) \in 48..57
              \/ Head(u) = 46 /\ Len(u) >= 2 /\ u[2] \in 48..57

\* the form of a key: a textarea (string), rows of inputs (matrix) or the
\* word "binary" (htmlForm with val === null)
BinaryForm == [t |-> "binaryform"]

\* export function getValue(key): the textarea's string, or the rows of
\* inputs; a binary form has one row and no input
GetValue(forms, key) ==
    IF forms[key] = BinaryForm THEN Matrix(<<<<>>>>) ELSE forms[key]

\* the number of .val inputs of a form
NumInputs(form) ==
    IF form = BinaryForm THEN 0
    ELSE IF form.t = "string" THEN 1
    ELSE IF form.v = <<>> THEN 0
    ELSE Len(form.v) * Len(form.v[1])

\* export function updateForm(key, val, ...): val is a string, a matrix, or
\* BinaryForm for null. A missing form is added with the value; a string goes
\* to the first input; a matrix of another size replaces the rows, one of the
\* same size refills the inputs.
UpdateForm(forms, key, val) ==
    IF key \notin DOMAIN forms THEN [k \in DOMAIN forms \cup {key} |-> IF k = key THEN val ELSE forms[k]]
    ELSE IF val = BinaryForm \/ (forms[key] = BinaryForm /\ val.t = "string") THEN forms
    ELSE LET old == forms[key]
             new == IF val.t = "string"
                    THEN IF old.t = "string" THEN val
                         ELSE IF NumInputs(old) = 0 THEN old
                         ELSE Matrix([old.v EXCEPT ![1][1] = val.v])
                    ELSE IF NumInputs(old) = Len(val.v) * Len(val.v[1]) /\ old.t = "string"
                    THEN Text(val.v[1][1])
                    ELSE val
         IN  [forms EXCEPT ![key] = new]

\* JSON.parse of the documents that are sent. A document is an object whose
\* properties are strings; anything else is not JSON and raises SyntaxError.
\*   {A} namespace configuration     {C} {D} camera models
\*   {O} {P} object models           {R} robot model
\*   {T} trajectory model            {X} an object with no property
Doc(c) == <<123, c, 125>>

JsonDocs ==
    Doc(65) :> [key_cameras_prefix |-> <<99>>, key_objects_prefix |-> <<111>>,
                key_robots_prefix |-> <<114>>, key_trajectories_prefix |-> <<116>>]
    @@ Doc(66) :> [key_cameras_prefix |-> <<>>, key_objects_prefix |-> <<111>>]
    @@ Doc(67) :> [key_pos |-> <<>>, key_ori |-> <<>>, key_intrinsic |-> <<107>>,
                   key_depth_image |-> <<100>>, key_color_image |-> <<101>>]
    @@ Doc(68) :> [key_pos |-> <<>>, key_ori |-> <<>>, key_intrinsic |-> <<>>,
                   key_depth_image |-> <<102>>, key_color_image |-> <<>>]
    @@ Doc(70) :> [key_cameras_prefix |-> <<111>>]
    @@ Doc(79) :> [graphics |-> <<>>, key_pos |-> <<112>>, key_ori |-> <<>>,
                   key_scale |-> <<>>, key_matrix |-> <<>>]
    @@ Doc(80) :> [graphics |-> <<>>, key_pos |-> <<113>>, key_ori |-> <<>>,
                   key_scale |-> <<>>, key_matrix |-> <<>>]
    @@ Doc(81) :> [graphics |-> <<>>, key_pos |-> <<112>>]
    @@ Doc(82) :> [articulated_body |-> <<>>, key_q |-> <<106>>, key_pos |-> <<>>,
                   key_ori |-> <<>>]
    @@ Doc(83) :> [graphics |-> <<>>, key_pos |-> <<112>>, key_ori |-> <<112>>,
                   key_scale |-> <<>>, key_matrix |-> <<>>]
    @@ Doc(84) :> [key_pos |-> <<112>>]
    @@ Doc(88) :> [axis_size |-> <<>>]

JsonParse(val) ==
    IF val.t = "string" /\ val.v \in DOMAIN JsonDocs
    THEN [ok |-> TRUE, v |-> JsonDocs[val.v]]
    ELSE [ok |-> FALSE]

\* model[field]: undefined for a property the object does not have
Field(model, field) == IF field \in DOMAIN model THEN model[field] ELSE UndefinedVal

\* ------------------------------------------------------------------------
\* camera.js: the image payloads
\* ------------------------------------------------------------------------

\* let DOWNSCALE_FACTOR = 2
DOWNSCALE_FACTOR == 2

\* let CV_TYPES: the header word of each OpenCV type
CV_TYPES ==
    <<48>> :> "CV_8UC1" @@ <<56>> :> "CV_8UC2" @@ <<49, 54>> :> "CV_8UC3"
    @@ <<50, 52>> :> "CV_8UC4" @@ <<50>> :> "CV_16UC1" @@ <<49, 48>> :> "CV_16UC2"
    @@ <<49, 56>> :> "CV_16UC3" @@ <<50, 54>> :> "CV_16UC4" @@ <<53>> :> "CV_32FC1"
    @@ <<49, 51>> :> "CV_32FC2" @@ <<49, 49>> :> "CV_32FC3" @@ <<50, 57>> :> "CV_32FC4"

\* type.includes("CV_32FC")
IsFloatType(type) == type \in {"CV_32FC1", "CV_32FC2", "CV_32FC3", "CV_32FC4"}

\* String.fromCharCode(buffer[idx]): the character 0 past the end
CharAt(buffer, idx) == IF idx < Len(buffer) THEN buffer[idx + 1] ELSE 0

\* the loop of getOpenCvType: idx is already past char
RECURSIVE TypeWord(_, _, _, _)
TypeWord(buffer, word, idx, char) ==
    IF idx < Len(buffer) /\ char # 32
    THEN TypeWord(buffer, Append(word, char), idx + 1, CharAt(buffer, idx))
    ELSE [word |-> word, idx |-> idx]

\* function getOpenCvType(buffer): [type, idx]
GetOpenCvType(buffer) ==
    LET r == TypeWord(buffer, <<>>, 1, CharAt(buffer, 0))
    IN  [type |-> IF r.word \in DOMAIN CV_TYPES THEN CV_TYPES[r.word] ELSE "custom",
         idx |-> r.idx]

\* function getBufferSize(buffer, idx): the offset after the next space; the
\* loop has no bound, so it never ends when no space follows
GetBufferSize(buffer, idx) ==
    IF \E i \in (idx + 1)..Len(buffer) : buffer[i] = 32
    THEN [st |-> "ok",
          idx |-> CHOOSE i \in (idx + 1)..Len(buffer) :
                      buffer[i] = 32 /\ \A j \in (idx + 1)..(i - 1) : buffer[j] # 32]
    ELSE [st |-> "hang"]

\* THREE.EXRLoader.parse, on a stand-in container: one byte of height, one of
\* width, then one byte per value; a shorter buffer is not a container
ExrParse(buffer) ==
    IF Len(buffer) < 2 THEN [ok |-> FALSE]
    ELSE [ok |-> TRUE, height |-> buffer[1], width |-> buffer[2],
          data |-> SubSeq(buffer, 3, Len(buffer))]

\* img.length / (rows * cols)
Channels(len, rows, cols) == IF rows * cols = 0 THEN 0 ELSE len \div (rows * cols)

\* the floating-point branch of parseOpenCvMat: the promise is resolved
ParseExr(opencv_mat, idx) ==
    LET size == GetBufferSize(opencv_mat, idx)
        exr == ExrParse(Slice(opencv_mat, size.idx, Len(opencv_mat)))
    IN  IF size.st # "ok" THEN size
        ELSE IF ~exr.ok THEN Thrown
        ELSE [st |-> "ok", promise |-> "resolved", img |-> exr.data,
              dim |-> <<exr.height, exr.width, Channels(Len(exr.data), exr.height, exr.width)>>]

\* the compressed-image branch of parseOpenCvMat: the promise resolves when
\* the browser has loaded the image
ParsePng(opencv_mat, idx) ==
    LET size == GetBufferSize(opencv_mat, idx)
        numCols == GetUint(opencv_mat, size.idx + 16, 4)
        numRows == GetUint(opencv_mat, size.idx + 20, 4)
    IN  IF size.st # "ok" THEN size
        ELSE IF ~numCols.ok \/ ~numRows.ok THEN Thrown
        ELSE [st |-> "ok", promise |-> "image",
              img |-> Slice(opencv_mat, size.idx, Len(opencv_mat)),
              dim |-> <<numRows.v, numCols.v, 4>>]

\* the custom branch of parseOpenCvMat: buffer is an ArrayBuffer, which has no
\* length, so the loop over the three dimensions reads nothing, the switch
\* matches no case and img.length is read from undefined: a TypeError
ParseCustom(opencv_mat, idx) == Thrown

\* function parseOpenCvMat(opencv_mat): [promise_img, [numRows, numCols, numChannels]]
ParseOpenCvMat(opencv_mat) ==
    LET head == GetOpenCvType(opencv_mat)
    IN  IF IsFloatType(head.type) THEN ParseExr(opencv_mat, head.idx)
        ELSE IF head.type # "custom" THEN ParsePng(opencv_mat, head.idx)
        ELSE ParseCustom(opencv_mat, head.idx)

\* ------------------------------------------------------------------------
\* The page's state as one record W, threaded through the handlers. Besides
\* the program's variables W holds what the running handler did: renders
\* (calls of renderer.render), ready (READY posts), calls (the update
\* handlers invoked), deleted (the keys parseDeleteKeys was given), malformed
\* (parseMessage raised the error), thrown (an exception is propagating),
\* hung (a loop that never ends was entered) and ret (the last return value).
\* ------------------------------------------------------------------------

Null == [t |-> "null"]

\* a typed array of pixel values
Pixels(img) == [t |-> "pixels", v |-> img]

Throw(W) == [W EXCEPT !.thrown = TRUE]

Hang(W) == [W EXCEPT !.thrown = TRUE, !.hung = TRUE]

Ret(W, v) == [W EXCEPT !.ret = v]

\* renderer.render(scene, camera)
Render(W) == [W EXCEPT !.renders = @ + 1]

\* the registry of a kind: robots, objects, trajectories or cameras
KindOf(components) ==
    CASE components = "robots" -> "robot"
      [] components = "objects" -> "object"
      [] components = "trajectories" -> "trajectory"
      [] components = "cameras" -> "camera"

\* components[key] === component
Installed(W, components, key, component) ==
    key \in DOMAIN W[components] /\ W[components][key] = component

\* a new THREE.Object3D with its redisgl field (Camera.create,
\* Trajectory.create, Robot.create, GraphicsObject.create); last holds the
\* value each update handler applied last
NewComponent(kind) ==
    IF kind = "camera"
    THEN [kind |-> kind, last |-> <<>>,
          redisgl |-> [colorImage |-> Null, depthImage |-> Null, depthDim |-> <<0, 0, 0>>,
                       colorDim |-> <<0, 0, 0>>, intrinsic |-> Null]]
    ELSE [kind |-> kind, last |-> <<>>, redisgl |-> Null]

\* a create that builds an entity from any model
CreateSucceeds(kind, model) == FALSE

\* Component.create raises a TypeError on a model without its geometry:
\* model["graphics"].forEach, ab["T_base_to_world"]
CreateThrows(kind, model) ==
    \/ kind = "object" /\ "graphics" \notin DOMAIN model
    \/ kind = "robot" /\ "articulated_body" \notin DOMAIN model

\* a load callback that does not look at the registry
LoadCallbackUnchecked(W, components, key, component, notify) ==
    [Render(W) EXCEPT !.ready = @ + (IF notify THEN 1 ELSE 0)]

\* the load callback of addComponentToScene: (component) => { ... }
LoadCallback(W, components, key, component, notify) ==
    IF ~Installed(W, components, key, component) THEN W
    ELSE [Render(W) EXCEPT !.ready = @ + (IF notify THEN 1 ELSE 0)]

\* function addComponentToScene(Component, components, key, model, callback).
\* The entity keeps the model it was created from.
\* A camera or a trajectory calls the load callback inside create; a robot or
\* an object calls it when its graphics are loaded.
AddComponentToScene(W, components, key, model, notify) ==
    LET kind == KindOf(components)
        component == Len(W.heap) + 1
        load == [ent |-> component, components |-> components, key |-> key, notify |-> notify]
        W1 == [W EXCEPT !.heap = Append(@, [model |-> model] @@ NewComponent(kind))]
        W2 == IF kind \in {"camera", "trajectory"}
              THEN LoadCallback(W1, components, key, component, notify)
              ELSE [W1 EXCEPT !.loads = @ \cup {load}]
        W3 == IF key \in DOMAIN W2[components]
              THEN [W2 EXCEPT !.scene = @ \ {W2[components][key]},
                              ![components] = [k \in DOMAIN @ \ {key} |-> @[k]]]
              ELSE W2
        W4 == [W3 EXCEPT ![components] = (key :> component) @@ @,
                         !.scene = @ \cup {component}]
    IN  IF CreateThrows(kind, model) THEN Throw(W) ELSE Render(W4)

\* ------------------------------------------------------------------------
\* The update handlers (object.js, robot.js, trajectory.js, camera.js)
\* ------------------------------------------------------------------------

\* Redis.makeNumeric(val[0]) raises a TypeError when val[0] is undefined: val
\* is an ArrayBuffer, an empty string or an array without rows
FirstRowThrows(val) == val.t = "binary" \/ val.v = <<>>

\* the elements of a matrix, flattened
RECURSIVE Flatten(_)
Flatten(rows) == IF rows = <<>> THEN <<>> ELSE Head(rows) \o Flatten(Tail(rows))

\* updateMatrix raises an error unless val is a matrix of 9 or 16 elements:
\* makeNumeric or concat.apply fail on an ArrayBuffer or a string, and the
\* else branch reads the undeclared name matrix
MatrixThrows(val) == val.t # "matrix" \/ Len(Flatten(val.v)) \notin {9, 16}

SetLast(W, ent, role, val) == [W EXCEPT !.heap[ent].last = (role :> val) @@ @]

\* updatePosition, updateOrientation, updateScale, updateQ: return true
UpdatePose(W, ent, role, val) ==
    IF FirstRowThrows(val) THEN Throw(W) ELSE Ret(SetLast(W, ent, role, val), TRUE)

\* export function updateMatrix(object, val)
UpdateMatrix(W, ent, val) ==
    IF MatrixThrows(val) THEN Throw(W) ELSE Ret(SetLast(W, ent, "matrix", val), TRUE)

\* export function appendPosition(traj, val): returns nothing
AppendPosition(W, ent, val) ==
    IF FirstRowThrows(val) THEN Throw(W) ELSE Ret(SetLast(W, ent, "pos", val), FALSE)

\* export function updateIntrinsic(camera, val): makeNumeric fails on an
\* ArrayBuffer; renderCameraViewFrame reads K[0][2] and K[1][2] and
\* renderPointCloud is true once a depth image is there
UpdateIntrinsic(W, ent, val) ==
    LET W1 == [W EXCEPT !.heap[ent].redisgl.intrinsic = val]
    IN  IF val.t = "binary" THEN Throw(W)
        ELSE IF Len(val.v) < 2 THEN Throw(W1)
        ELSE Ret(W1, W1.heap[ent].redisgl.depthImage # Null)

\* an image handler that does not look at the stream's flag
FlagIgnored(W, stream) == FALSE

\* the guard of updateDepthImage and updateColorImage on the stream's flag
StreamBusy(W, stream) == IF stream = "depth" THEN W.updatingDepth ELSE W.updatingColor

SetBusy(W, stream, b) ==
    IF stream = "depth" THEN [W EXCEPT !.updatingDepth = b] ELSE [W EXCEPT !.updatingColor = b]

\* promise_img.then(...) on what parseOpenCvMat returned: a resolved promise
\* runs its callback as a microtask, the image promise when the image has
\* loaded; an error of parseOpenCvMat leaves the flag set
Then(W, ent, stream, r) ==
    IF r.st = "throw" THEN Throw(W)
    ELSE IF r.st = "hang" THEN Hang(W)
    ELSE IF r.promise = "resolved"
    THEN Ret([W EXCEPT !.microtasks =
                  Append(@, [stream |-> stream, ent |-> ent, img |-> r.img, dim |-> r.dim,
                             second |-> FALSE])],
             FALSE)
    ELSE Ret([W EXCEPT !.images =
                  Append(@, [stream |-> stream, ent |-> ent, img |-> r.img, dim |-> r.dim,
                             second |-> FALSE])],
             FALSE)

\* export function updateDepthImage / updateColorImage (camera, opencv_mat,
\* renderCallback), up to promise_img.then: a resolved promise runs its
\* callback as a microtask, the image promise when the image has loaded
UpdateImage(W, ent, stream, opencv_mat) ==
    IF opencv_mat.t # "binary" THEN Ret(W, FALSE)
    ELSE IF StreamBusy(W, stream) THEN Ret(W, FALSE)
    ELSE Then(SetBusy(W, stream, TRUE), ent, stream, ParseOpenCvMat(opencv_mat.v))

\* renderCameraViewFrame reads K[1][2] once an intrinsic is set: a TypeError
\* when the intrinsic has no second row
ViewFrameThrows(spec) == spec.intrinsic # Null /\ Len(spec.intrinsic.v) < 2

\* renderPointCloud reads K[0][2] and K[1][2] for the first sampled pixel of
\* positive depth
PointCloudThrows(spec) ==
    /\ spec.depthImage # Null
    /\ ViewFrameThrows(spec)
    /\ spec.depthDim[2] > 0
    /\ \E i \in DOMAIN spec.depthImage.v :
           LET y == (i - 1) \div spec.depthDim[2]
               x == (i - 1) % spec.depthDim[2]
           IN  /\ y < spec.depthDim[1]
               /\ y % DOWNSCALE_FACTOR = 0
               /\ x % DOWNSCALE_FACTOR = 0
               /\ spec.depthImage.v[i] > 0

\* the place of a completing decode in a frame of two images, for the record
\* of the callback: "second" when the camera's decode of the other stream
\* completed while this one was in flight, "first" when that decode is still
\* in flight, else "single"; the decodes left in flight learn of it
Paired(W, decode) ==
    LET Partner(d) == d.ent = decode.ent /\ d.stream # decode.stream
        Told(ds) == [i \in DOMAIN ds |->
                        IF Partner(ds[i]) THEN [ds[i] EXCEPT !.second = TRUE] ELSE ds[i]]
    IN  [W EXCEPT !.microtasks = Told(@), !.images = Told(@),
                  !.frame = IF decode.second THEN "second"
                            ELSE IF \E d \in Range(W.microtasks) \cup Range(W.images) : Partner(d)
                            THEN "first" ELSE "single"]

\* the callback of promise_img.then in updateDepthImage / updateColorImage:
\* the frame is stored, the geometry is redrawn, and the render callback is
\* called unless the other stream is being updated
ImageDecoded(W, decode) ==
    LET other == IF decode.stream = "depth" THEN "color" ELSE "depth"
        W1 == IF decode.stream = "depth"
              THEN [W EXCEPT !.heap[decode.ent].redisgl.depthImage = Pixels(decode.img),
                             !.heap[decode.ent].redisgl.depthDim = decode.dim]
              ELSE [W EXCEPT !.heap[decode.ent].redisgl.colorImage = Pixels(decode.img),
                             !.heap[decode.ent].redisgl.colorDim = decode.dim]
        spec == W1.heap[decode.ent].redisgl
    IN  IF decode.stream = "depth" /\ ViewFrameThrows(spec) THEN Throw(W1)
        ELSE IF PointCloudThrows(spec) THEN Throw(W1)
        ELSE IF ~StreamBusy(W1, other)
        THEN SetBusy(Render(W1), decode.stream, FALSE)
        ELSE SetBusy(W1, decode.stream, FALSE)

\* the update callback registered for a role: updateCallback(component, val,
\* renderCallback). Each call is logged with whether the component was the
\* one installed under its key.
Handler(W, h, key, keyComponent, val, via) ==
    LET W1 == [W EXCEPT !.calls =
                   Append(@, [key |-> key, keyComponent |-> keyComponent, role |-> h.role,
                              ent |-> h.ent, via |-> via,
                              live |-> Installed(W, h.components, keyComponent, h.ent),
                              busy |-> h.role \in {"depth", "color"} /\ StreamBusy(W, h.role)])]
    IN  CASE h.role = "depth" -> UpdateImage(W1, h.ent, "depth", val)
          [] h.role = "color" -> UpdateImage(W1, h.ent, "color", val)
          [] h.role = "intrinsic" -> UpdateIntrinsic(W1, h.ent, val)
          [] h.role = "matrix" -> UpdateMatrix(W1, h.ent, val)
          [] h.role = "pos" /\ h.components = "trajectories" -> AppendPosition(W1, h.ent, val)
          [] OTHER -> UpdatePose(W1, h.ent, h.role, val)

\* ------------------------------------------------------------------------
\* simulator.js: the routing registry and the entity lifecycle
\* ------------------------------------------------------------------------

\* "webapp::simulator::args"
KEY_ARGS ==
    <<119, 101, 98, 97, 112, 112, 58, 58, 115, 105, 109, 117, 108, 97, 116, 111, 114,
      58, 58, 97, 114, 103, 115>>

\* new RegExp("^" + KEY_ARGS + "::(.*)$").exec(key): the namespace, which
\* holds no line break
ArgsPrefix == KEY_ARGS \o <<58, 58>>

IsArgsKey(key) ==
    /\ StartsWith(key, ArgsPrefix)
    /\ \A i \in (Len(ArgsPrefix) + 1)..Len(key) : key[i] \notin {10, 13}

Namespace(key) == SubSeq(key, Len(ArgsPrefix) + 1, Len(key))

\* function registerRedisUpdateCallback(key, keyComponent, component,
\* updateCallback): one callback per key and component, run at once when the
\* key has a form. components and role stand for component and updateCallback.
RegisterRedisUpdateCallback(W, key, keyComponent, components, role) ==
    LET k == Str(key)
        h == [role |-> role, components |-> components, ent |-> W[components][keyComponent]]
        list == IF k \in DOMAIN W.redisUpdateCallbacks THEN W.redisUpdateCallbacks[k] ELSE <<>>
        W1 == [W EXCEPT !.redisUpdateCallbacks = (k :> ObjSet(list, keyComponent, h)) @@ @]
    IN  IF W.thrown \/ key = <<>> THEN W
        ELSE IF k \in DOMAIN W.forms
        THEN Handler(W1, h, k, keyComponent, GetValue(W.forms, k), "replay")
        ELSE W1

\* delete obj[key]
ObjDelete(obj, key) ==
    LET keep == { i \in DOMAIN obj : obj[i].key # key }
        pos(n) == CHOOSE i \in keep : Cardinality({ j \in keep : j < i }) = n - 1
    IN  [n \in 1..Cardinality(keep) |-> obj[pos(n)]]

\* function unregisterRedisUpdateCallback(keyComponent)
UnregisterRedisUpdateCallback(W, keyComponent) ==
    [W EXCEPT !.redisUpdateCallbacks = [k \in DOMAIN @ |-> ObjDelete(@[k], keyComponent)]]

\* function isModelKey(key, keyPrefix)
IsModelKey(W, key, keyPrefix) ==
    \E modelKeys \in DOMAIN W.args :
        /\ Field(W.args[modelKeys], keyPrefix) # <<>>
        /\ StartsWith(key, Str(Field(W.args[modelKeys], keyPrefix)))

\* the registrations of a model, in order: <<model field, role, guarded>>;
\* a guarded one is skipped when the field is "" (model[...] !== "")
Registrations(components) ==
    CASE components = "robots" ->
            << <<"key_q", "q", FALSE>>, <<"key_pos", "pos", FALSE>>, <<"key_ori", "ori", FALSE>> >>
      [] components = "objects" ->
            << <<"key_pos", "pos", FALSE>>, <<"key_ori", "ori", TRUE>>,
               <<"key_scale", "scale", TRUE>>, <<"key_matrix", "matrix", TRUE>> >>
      [] components = "trajectories" ->
            << <<"key_pos", "pos", FALSE>> >>
      [] components = "cameras" ->
            << <<"key_pos", "pos", FALSE>>, <<"key_ori", "ori", FALSE>>,
               <<"key_intrinsic", "intrinsic", FALSE>>, <<"key_depth_image", "depth", FALSE>>,
               <<"key_color_image", "color", FALSE>> >>

RECURSIVE RegisterAll(_, _, _, _, _)
RegisterAll(W, components, key, model, i) ==
    LET reg == Registrations(components)[i]
    IN  IF i > Len(Registrations(components)) \/ W.thrown THEN W
        ELSE IF reg[3] /\ Field(model, reg[1]) = <<>>
        THEN RegisterAll(W, components, key, model, i + 1)
        ELSE RegisterAll(RegisterRedisUpdateCallback(W, Field(model, reg[1]), key, components,
                                                     reg[2]),
                         components, key, model, i + 1)

\* the prefix field of the namespace configuration for each registry
PrefixField(components) == "key_" \o components \o "_prefix"

\* function parseRobotModel / parseObjectModel / parseTrajectoryModel /
\* parseCameraModel (key, val): false for a key of another kind, else the
\* entity is built and its callbacks are registered
ParseModel(W, components, key, val) ==
    LET model == JsonParse(val)
    IN  IF ~IsModelKey(W, key, PrefixField(components)) THEN Ret(W, FALSE)
        ELSE IF ~model.ok THEN Throw(W)
        ELSE Ret(RegisterAll(AddComponentToScene(W, components, key, model.v,
                                                 components = "robots"),
                             components, key, model.v, 1),
                 TRUE)

\* !parseCameraModel(key, val) && !parseObjectModel(key, val) &&
\* !parseRobotModel(key, val) && !parseTrajectoryModel(key, val)
ModelOrder == <<"cameras", "objects", "robots", "trajectories">>

RECURSIVE ParseAnyModel(_, _, _, _)
ParseAnyModel(W, key, val, i) ==
    IF i > Len(ModelOrder) \/ W.thrown \/ W.ret THEN W
    ELSE ParseAnyModel(ParseModel(W, ModelOrder[i], key, val), key, val, i + 1)

RECURSIVE ParseModels(_, _, _)

\* the rest of an iteration of parseModels once the parsers have run on
\* keyVals[i]: an error is caught and ends the whole loop (return false), a
\* key that is no model is skipped (continue), a model gets its form
ModelParsed(W, keyVals, i) ==
    IF W.hung THEN W
    ELSE IF W.thrown THEN [W EXCEPT !.thrown = FALSE]
    ELSE IF ~W.ret THEN ParseModels(W, keyVals, i + 1)
    ELSE ParseModels([W EXCEPT !.forms = UpdateForm(@, keyVals[i].key, keyVals[i].val)],
                     keyVals, i + 1)

\* function parseModels(keyVals)
ParseModels(W, keyVals, i) ==
    IF i > Len(keyVals) \/ W.thrown THEN W
    ELSE IF keyVals[i].val.t = "binary" THEN ParseModels(W, keyVals, i + 1)
    ELSE ModelParsed(ParseAnyModel(Ret(W, FALSE), keyVals[i].key, keyVals[i].val, 1), keyVals, i)

\* the body of Redis.getKeys().forEach in parseArgs: the kind is chosen by the
\* prefixes of the namespace just configured, cameras first
RescanKind(args, key) ==
    LET hit == { i \in DOMAIN ModelOrder :
                    StartsWith(key, Str(Field(args, PrefixField(ModelOrder[i])))) }
    IN  ModelOrder[CHOOSE i \in hit : \A j \in hit : i <= j]

RECURSIVE Rescan(_, _, _, _)
Rescan(W, namespace, keys, i) ==
    IF i > Len(keys) \/ W.thrown THEN W
    ELSE IF \A components \in Range(ModelOrder) :
                ~StartsWith(keys[i], Str(Field(W.args[namespace], PrefixField(components))))
    THEN Rescan(W, namespace, keys, i + 1)
    ELSE Rescan(ParseModel(W, RescanKind(W.args[namespace], keys[i]), keys[i],
                           GetValue(W.forms, keys[i])),
                namespace, keys, i + 1)

\* function parseArgs(keyVals)
RECURSIVE ParseArgs(_, _, _)
ParseArgs(W, keyVals, i) ==
    LET key == keyVals[i].key
        parsed == JsonParse(keyVals[i].val)
    IN  IF i > Len(keyVals) \/ W.thrown THEN W
        ELSE IF ~IsArgsKey(key) \/ ~parsed.ok THEN ParseArgs(W, keyVals, i + 1)
        ELSE ParseArgs(Rescan([W EXCEPT !.args = (Namespace(key) :> parsed.v) @@ @],
                              Namespace(key), Sorted(DOMAIN W.forms), 1),
                       keyVals, i + 1)

\* the loop over redisUpdateCallbacks[key] in parseUpdateKeys
RECURSIVE CallUpdateCallbacks(_, _, _, _, _)
CallUpdateCallbacks(W, key, val, list, i) ==
    LET Returned(W1) == IF W1.thrown THEN W1 ELSE [W1 EXCEPT !.renderFrame = W1.ret \/ @]
    IN  IF i > Len(list) \/ W.thrown THEN W
        ELSE CallUpdateCallbacks(
                 Returned(Handler(W, list[i].val, key, list[i].key, val, "dispatch")),
                 key, val, list, i + 1)

\* function parseUpdateKeys(keyVals)
RECURSIVE ParseUpdateKeys(_, _, _)
ParseUpdateKeys(W, keyVals, i) ==
    LET key == keyVals[i].key
        val == IF IsNumeric(keyVals[i].val) THEN StringToMatrix(keyVals[i].val.v)
               ELSE keyVals[i].val
        Form(W1) ==
            IF W1.thrown THEN W1
            ELSE [W1 EXCEPT !.forms = UpdateForm(@, key, IF val.t = "binary" THEN BinaryForm
                                                         ELSE val)]
    IN  IF i > Len(keyVals) \/ W.thrown THEN W
        ELSE IF key \in DOMAIN W.redisUpdateCallbacks
        THEN ParseUpdateKeys(
                 Form(CallUpdateCallbacks(W, key, val, W.redisUpdateCallbacks[key], 1)),
                 keyVals, i + 1)
        ELSE ParseUpdateKeys(Form(W), keyVals, i + 1)

\* one branch of parseDeleteKeys: the entity leaves the scene and its
\* registry and its callbacks are unregistered
DeleteComponent(W, components, key) ==
    LET W1 == [W EXCEPT !.scene = @ \ {W[components][key]},
                        ![components] = [k \in DOMAIN @ \ {key} |-> @[k]]]
    IN  [UnregisterRedisUpdateCallback(W1, key) EXCEPT !.renderFrame = TRUE]

\* a deleteForm that also asks for a render
DeleteFormAndRender(W, key) ==
    [W EXCEPT !.deleted = @ \cup {key}, !.renderFrame = TRUE,
              !.closing = IF key \in DOMAIN W.forms THEN @ \cup {key} ELSE @]

\* export function deleteForm(key): the form is removed when it has slid up
DeleteForm(W, key) ==
    IF key \in DOMAIN W.forms
    THEN [W EXCEPT !.closing = @ \cup {key}, !.deleted = @ \cup {key}]
    ELSE [W EXCEPT !.deleted = @ \cup {key}]

\* function parseDeleteKeys(keys)
RECURSIVE ParseDeleteKeys(_, _, _)
ParseDeleteKeys(W, keys, i) ==
    LET key == PropertyKey(keys[i])
    IN  IF i > Len(keys) \/ W.thrown THEN W
        ELSE IF key \in DOMAIN W.robots
        THEN ParseDeleteKeys(DeleteForm(DeleteComponent(W, "robots", key), key), keys, i + 1)
        ELSE IF key \in DOMAIN W.objects
        THEN ParseDeleteKeys(DeleteForm(DeleteComponent(W, "objects", key), key), keys, i + 1)
        ELSE ParseDeleteKeys(DeleteForm(W, key), keys, i + 1)

\* a handleMessage that goes on with whatever parseMessage had read
ErrorIgnored(keys) == FALSE

\* const keys = Redis.parseMessage(buffer): an error raised there leaves
\* handleMessage before any of its steps
ParseFailed(keys) == keys.st # "ok"

\* function handleMessage(buffer)
HandleMessageBody(W, buffer) ==
    LET keys == ParseMessage(buffer)
        Finish(W4) ==
            IF W4.thrown THEN W4
            ELSE [(IF W4.renderFrame THEN Render(W4) ELSE W4) EXCEPT !.handlingMessage = FALSE]
    IN  IF ParseFailed(keys) THEN Throw([W EXCEPT !.malformed = TRUE])
        ELSE Finish(ParseDeleteKeys(
                        ParseUpdateKeys(
                            ParseModels(ParseArgs(W, keys.toUpdate, 1), keys.toUpdate, 1),
                            keys.toUpdate, 1),
                        keys.toDelete, 1))

\* ------------------------------------------------------------------------
\* The page: the variables of simulator.js and camera.js, the forms of
\* redis.js, and the callbacks that are pending
\* ------------------------------------------------------------------------

VARIABLES
    handlingMessage,        \* let handlingMessage
    redisUpdateCallbacks,   \* key -> the callbacks of its components, in for-in order
    args,                   \* namespace -> configuration
    robots,                 \* key -> entity (an index of heap)
    objects,
    trajectories,
    cameras,
    scene,                  \* the entities added to the THREE.Scene
    heap,                   \* every entity created so far
    forms,                  \* key -> the value its form shows
    closing,                \* keys whose form is sliding up before removal
    updatingDepth,          \* var updatingDepth
    updatingColor,          \* var updatingColor
    microtasks,             \* callbacks of resolved image promises, not yet run
    images,                 \* images the browser is loading
    loads,                  \* robots and objects whose graphics are loading
    hung,                   \* the page's thread is in a loop that never ends
    converting,             \* messages accepted, arrayBuffer() not yet resolved
    arrived,                \* the number of messages received
    dropped,                \* the messages onmessage returned from
    processed,              \* the messages handleMessage was called with
    log                     \* what the last callback did

pageVars ==
    <<handlingMessage, redisUpdateCallbacks, args, robots, objects, trajectories, cameras,
      scene, heap, forms, closing, updatingDepth, updatingColor, microtasks, images, loads,
      hung, converting, arrived, dropped, processed, log>>

\* the record of a callback's run
Log(op, id, W) ==
    [op |-> op, id |-> id, thrown |-> W.thrown, malformed |-> W.malformed,
     renders |-> W.renders, ready |-> W.ready, calls |-> W.calls, deleted |-> W.deleted,
     frame |-> W.frame]

\* the page before a callback runs
World ==
    [handlingMessage |-> handlingMessage, redisUpdateCallbacks |-> redisUpdateCallbacks,
     args |-> args, robots |-> robots, objects |-> objects, trajectories |-> trajectories,
     cameras |-> cameras, scene |-> scene, heap |-> heap, forms |-> forms,
     closing |-> closing, updatingDepth |-> updatingDepth, updatingColor |-> updatingColor,
     microtasks |-> microtasks, images |-> images, loads |-> loads, hung |-> hung,
     renderFrame |-> FALSE, renders |-> 0, ready |-> 0, calls |-> <<>>, deleted |-> {},
     frame |-> "", malformed |-> FALSE, thrown |-> FALSE, ret |-> FALSE]

\* the page after the callback op has run
Becomes(op, id, W) ==
    /\ log' = Log(op, id, W)
    /\ handlingMessage' = W.handlingMessage
    /\ redisUpdateCallbacks' = W.redisUpdateCallbacks
    /\ args' = W.args
    /\ robots' = W.robots
    /\ objects' = W.objects
    /\ trajectories' = W.trajectories
    /\ cameras' = W.cameras
    /\ scene' = W.scene
    /\ heap' = W.heap
    /\ forms' = W.forms
    /\ closing' = W.closing
    /\ updatingDepth' = W.updatingDepth
    /\ updatingColor' = W.updatingColor
    /\ microtasks' = W.microtasks
    /\ images' = W.images
    /\ loads' = W.loads
    /\ hung' = W.hung

\* the page once the module has been evaluated: let handlingMessage = false,
\* let redisUpdateCallbacks = {}, ..., var updatingDepth = false
PageInit ==
    /\ handlingMessage = FALSE
    /\ redisUpdateCallbacks = <<>>
    /\ args = <<>>
    /\ robots = <<>>
    /\ objects = <<>>
    /\ trajectories = <<>>
    /\ cameras = <<>>
    /\ scene = {}
    /\ heap = <<>>
    /\ forms = <<>>
    /\ closing = {}
    /\ updatingDepth = FALSE
    /\ updatingColor = FALSE
    /\ microtasks = <<>>
    /\ images = <<>>
    /\ loads = {}
    /\ hung = FALSE
    /\ converting = <<>>
    /\ arrived = 0
    /\ dropped = {}
    /\ processed = {}
    /\ log = [op |-> "init", id |-> 0, thrown |-> FALSE, malformed |-> FALSE, renders |-> 0,
              ready |-> 0, calls |-> <<>>, deleted |-> {}, frame |-> ""]

\* ------------------------------------------------------------------------
\* The wire decoder on encoded and truncated batches
\* ------------------------------------------------------------------------

VARIABLES
    wBatch,     \* the batch the producer sends
    wBuf,       \* the bytes that reach parseMessage
    wOut,       \* what parseMessage returned
    wPc         \* "encode", "sent", "cut", "done", "doneCut"

wireVars == <<wBatch, wBuf, wOut, wPc>>

\* one function of the program called on its own: its argument, or the number
\* of calls made, and what it has returned or built
VARIABLES arg, result

callVars == <<arg, result>>

\* the server at the other end of the socket, which decides what is sent
VARIABLES server

MaxUpdates == 2

MaxDeletes == 1

\* a text of 126 characters: the shortest one with a 2-byte length field
LongText == [i \in 1..126 |-> 120]

\* update keys: "a", "1", "2"
WireKeys == { <<97>>, <<49>>, <<50>> }

WireVals == { Text(<<120>>), Binary(<<7, 8>>), Text(LongText) }

WireDeleteKeys == { Text(<<97>>), Text(<<49>>), Binary(<<9, 9>>) }

SeqsUpTo(S, n) == UNION { [1..k -> S] : k \in 0..n }

DistinctKeys(updates) ==
    \A i, j \in DOMAIN updates : updates[i].key = updates[j].key => i = j

WireBatches ==
    { [updates |-> u, deletes |-> d] :
        u \in { x \in SeqsUpTo([key : WireKeys, val : WireVals], MaxUpdates) : DistinctKeys(x) },
        d \in SeqsUpTo(WireDeleteKeys, MaxDeletes) }

NoResult == [st |-> "none"]

InitWire ==
    /\ PageInit
    /\ wBatch \in WireBatches
    /\ wBuf = <<>>
    /\ wOut = NoResult
    /\ wPc = "encode"
    /\ arg = <<>>
    /\ result = <<>>
    /\ server = ""

\* the producer encodes the batch
WireEncode ==
    /\ wPc = "encode"
    /\ wBuf' = EncodeMessage(wBatch)
    /\ wPc' = "sent"
    /\ UNCHANGED <<wBatch, wOut>>
    /\ UNCHANGED <<pageVars, callVars, server>>

\* the message is cut short at a byte boundary
WireTruncate ==
    /\ wPc = "sent"
    /\ \E n \in 0..(Len(wBuf) - 1) : wBuf' = SubSeq(wBuf, 1, n)
    /\ wPc' = "cut"
    /\ UNCHANGED <<wBatch, wOut>>
    /\ UNCHANGED <<pageVars, callVars, server>>

\* the consumer decodes what arrived
WireDecode ==
    /\ wPc \in {"sent", "cut"}
    /\ wOut' = ParseMessage(wBuf)
    /\ wPc' = IF wPc = "sent" THEN "done" ELSE "doneCut"
    /\ UNCHANGED <<wBatch, wBuf>>
    /\ UNCHANGED <<pageVars, callVars, server>>

NextWire == WireEncode \/ WireTruncate \/ WireDecode

SpecWire == InitWire /\ [][NextWire]_<<wireVars, pageVars, callVars, server>>

\* C6: decoding an encoded batch of updates with pairwise-distinct keys gives
\* back the same key/value pairs in protocol order and the same delete keys.
C6_RoundTrip ==
    wPc = "done" =>
        /\ wOut.st = "ok"
        /\ wOut.toUpdate = wBatch.updates
        /\ wOut.toDelete = wBatch.deletes

\* the payload that starts at offset idx of the whole message ends past the
\* end of the truncated buffer
RunsPastEnd(idx) ==
    LET whole == ParsePayload(EncodeMessage(wBatch), idx)
    IN  whole.st = "ok" /\ whole.idx > Len(wBuf)

\* C7: every proper prefix of a valid message makes parseMessage fail, and a
\* payload whose declared length runs past the end of the buffer is rejected
\* by parsePayload, never returned shortened.
C7_TruncationRejected ==
    wPc = "doneCut" =>
        /\ wOut.st = "throw"
        /\ \A idx \in 0..Len(wBuf) : RunsPastEnd(idx) => ParsePayload(wBuf, idx).st # "ok"

\* ------------------------------------------------------------------------
\* The page on the messages of a server
\* ------------------------------------------------------------------------

MaxMessages == 3

\* "webapp::simulator::args::n"
KeyNamespace == ArgsPrefix \o <<110>>

\* an image payload "0 9 " + data: type CV_8UC1, a size word and an image of
\* 2 x 2 pixels (width at offset 16 of the data, height at offset 20)
PngPayload ==
    <<48, 32, 57, 32>>
    \o <<137, 80, 78, 71, 13, 10, 26, 10, 0, 0, 0, 13, 73, 72, 68, 82>>
    \o <<0, 0, 0, 2>> \o <<0, 0, 0, 2>>

\* an image payload "5 9 " + data: type CV_32FC1 and a 2 x 2 float image
ExrPayload == <<53, 32, 57, 32>> \o <<2, 2, 1, 1, 1, 1>>

\* "1 2 3"
Triple == <<49, 32, 50, 32, 51>>

\* "1 0 1; 0 1 1; 0 0 1"
Intrinsic == <<49, 32, 48, 32, 49, 59, 32, 48, 32, 49, 32, 49, 59, 32, 48, 32, 48, 32, 49>>

Update(key, val) == [updates |-> <<[key |-> key, val |-> val]>>, deletes |-> <<>>]

Delete(key) == [updates |-> <<>>, deletes |-> <<Text(key)>>]

\* the configuration and one model of each kind, in one batch
SetupBatch ==
    [updates |-> << [key |-> KeyNamespace, val |-> Text(Doc(65))],
                    [key |-> <<99>>, val |-> Text(Doc(67))],
                    [key |-> <<111>>, val |-> Text(Doc(79))],
                    [key |-> <<114>>, val |-> Text(Doc(82))],
                    [key |-> <<116>>, val |-> Text(Doc(84))] >>,
     deletes |-> <<>>]

\* the configuration and two cameras: "c" with a depth and a color stream and
\* "cc" with a depth stream of its own
CameraBatch ==
    [updates |-> << [key |-> KeyNamespace, val |-> Text(Doc(65))],
                    [key |-> <<99>>, val |-> Text(Doc(67))],
                    [key |-> <<99, 99>>, val |-> Text(Doc(68))] >>,
     deletes |-> <<>>]

\* a depth and a color image of one frame, in one batch
FrameBatch ==
    [updates |-> << [key |-> <<100>>, val |-> Binary(PngPayload)],
                    [key |-> <<101>>, val |-> Binary(PngPayload)] >>,
     deletes |-> <<>>]

\* a depth image "9 1 " with a header word that names no OpenCV type, then an
\* intrinsic matrix, and the delete of a key
BadImageBatch ==
    [updates |-> << [key |-> <<100>>, val |-> Binary(<<57, 32, 49, 32>>)],
                    [key |-> <<107>>, val |-> Text(Intrinsic)] >>,
     deletes |-> <<Text(<<122>>)>>]

\* the batches a server sends
Batches ==
    { SetupBatch, CameraBatch, FrameBatch, BadImageBatch,
      Update(<<102>>, Binary(PngPayload)),
      Update(KeyNamespace, Text(Doc(65))),
      Update(<<99>>, Text(Doc(68))),
      Update(<<111>>, Text(Doc(80))),
      Update(<<111>>, Text(Doc(88))),
      Update(<<111>>, Text(Triple)),
      Update(<<112>>, Text(Triple)),
      Update(<<113>>, Text(Triple)),
      Update(<<112>>, Binary(<<1>>)),
      Update(<<107>>, Text(Intrinsic)),
      Update(<<100>>, Binary(PngPayload)),
      Update(<<100>>, Binary(ExrPayload)),
      Update(<<101>>, Binary(PngPayload)),
      Delete(<<99>>), Delete(<<111>>), Delete(<<114>>), Delete(<<116>>) }

\* a message whose second key has the type tag 3, after one whole update
BadTagMessage ==
    UintBytes(2, 4) \o EncodePayload(Text(<<112>>)) \o EncodePayload(Text(Triple))
    \o <<3, 1, 97>> \o EncodePayload(Text(Triple)) \o UintBytes(0, 4)

\* a message that ends inside its second update
CutMessage ==
    LET whole == EncodeMessage([updates |-> << [key |-> <<112>>, val |-> Text(Triple)],
                                              [key |-> <<113>>, val |-> Text(Triple)] >>,
                                deletes |-> <<>>])
    IN  SubSeq(whole, 1, Len(whole) - 6)

\* e.data of the messages that arrive
\* a camera model, an object model that has no graphics and a trajectory
\* model, after the configuration
BrokenModelBatch ==
    [updates |-> << [key |-> KeyNamespace, val |-> Text(Doc(65))],
                    [key |-> <<99>>, val |-> Text(Doc(67))],
                    [key |-> <<111>>, val |-> Text(Doc(88))],
                    [key |-> <<116>>, val |-> Text(Doc(84))] >>,
     deletes |-> <<>>]

\* the configuration, a model for key, an update of the key "p" and the
\* delete of key, in one batch
CreateAndDelete(key, model) ==
    [updates |-> << [key |-> KeyNamespace, val |-> Text(Doc(65))],
                    [key |-> key, val |-> Text(model)],
                    [key |-> <<112>>, val |-> Text(Triple)] >>,
     deletes |-> <<Text(key)>>]

\* the batches of a server that sends models and configurations
ModelBatches ==
    { BrokenModelBatch,
      CreateAndDelete(<<111>>, Doc(79)),
      CreateAndDelete(<<99>>, Doc(67)),
      [updates |-> <<[key |-> <<112>>, val |-> Text(Triple)]>>,
       deletes |-> <<Text(<<111>>)>>],
      Update(KeyNamespace, Text(Doc(66))),
      Update(KeyNamespace, Text(Doc(70))),
      Update(<<111>>, Text(Doc(79))),
      Update(<<111>>, Text(Doc(81))),
      Update(<<111>>, Text(Doc(83))),
      Update(<<112>>, Text(Triple)) }

Messages ==
    IF server = "simulator"
    THEN { EncodeMessage(b) : b \in Batches } \cup { BadTagMessage, CutMessage }
    ELSE { EncodeMessage(b) : b \in ModelBatches }

Init ==
    /\ PageInit
    /\ wBatch = [updates |-> <<>>, deletes |-> <<>>]
    /\ wBuf = <<>>
    /\ wOut = NoResult
    /\ wPc = "off"
    /\ arg = <<>>
    /\ result = <<>>
    /\ server \in {"simulator", "models"}

\* an onmessage without its guard
GuardRemoved == FALSE

\* if (handlingMessage) return;
Handling == handlingMessage

\* ws.onmessage, past the guard: the conversion of e.data is started
OnMessage ==
    /\ ~hung /\ microtasks = <<>>
    /\ arrived < MaxMessages
    /\ ~Handling
    /\ \E data \in Messages :
           converting' = Append(converting, [id |-> arrived + 1, buffer |-> data])
    /\ handlingMessage' = TRUE
    /\ arrived' = arrived + 1
    /\ log' = Log("onmessage", arrived + 1, World)
    /\ UNCHANGED <<redisUpdateCallbacks, args, robots, objects, trajectories, cameras, scene,
                   heap, forms, closing, updatingDepth, updatingColor, microtasks, images,
                   loads, hung, dropped, processed, wireVars, callVars, server>>

\* ws.onmessage while handlingMessage is true: it returns at once
OnMessageDropped ==
    /\ ~hung /\ microtasks = <<>>
    /\ arrived < MaxMessages
    /\ Handling
    /\ arrived' = arrived + 1
    /\ dropped' = dropped \cup {arrived + 1}
    /\ log' = Log("dropped", arrived + 1, World)
    /\ UNCHANGED <<handlingMessage, redisUpdateCallbacks, args, robots, objects, trajectories,
                   cameras, scene, heap, forms, closing, updatingDepth, updatingColor,
                   microtasks, images, loads, hung, converting, processed, wireVars, callVars, server>>

\* .then(handleMessage): the buffer of the oldest conversion is handled
HandleMessage ==
    /\ ~hung /\ microtasks = <<>>
    /\ converting # <<>>
    /\ Becomes("handleMessage", Head(converting).id,
               HandleMessageBody(World, Head(converting).buffer))
    /\ converting' = Tail(converting)
    /\ processed' = processed \cup {Head(converting).id}
    /\ UNCHANGED <<arrived, dropped, wireVars, callVars, server>>

\* the callback of a resolved image promise runs before any other event
RunMicrotask ==
    /\ ~hung
    /\ microtasks # <<>>
    /\ Becomes("imageDecoded", Head(microtasks).ent,
               ImageDecoded(Paired([World EXCEPT !.microtasks = Tail(@)], Head(microtasks)),
                            Head(microtasks)))
    /\ UNCHANGED <<converting, arrived, dropped, processed, wireVars, callVars, server>>

\* the browser decodes an image whose data starts with the PNG signature
Decodable(img) == img # <<>> /\ img[1] = 137

DropAt(s, i) == SubSeq(s, 1, i - 1) \o SubSeq(s, i + 1, Len(s))

\* image.onload: the promise of a compressed image resolves
ImageLoaded ==
    /\ ~hung /\ microtasks = <<>>
    /\ \E i \in DOMAIN images :
           /\ Decodable(images[i].img)
           /\ Becomes("imageDecoded", images[i].ent,
                      ImageDecoded(Paired([World EXCEPT !.images = DropAt(@, i)], images[i]),
                                   images[i]))
    /\ UNCHANGED <<converting, arrived, dropped, processed, wireVars, callVars, server>>

\* Promise.all(promises).then(() => loadCallback(object)) of Robot.create and
\* GraphicsObject.create
LoadDone ==
    /\ ~hung /\ microtasks = <<>>
    /\ \E load \in loads :
           Becomes("loadCallback", load.ent,
                   LoadCallback([World EXCEPT !.loads = @ \ {load}], load.components,
                                load.key, load.ent, load.notify))
    /\ UNCHANGED <<converting, arrived, dropped, processed, wireVars, callVars, server>>

\* the callback of $form.slideUp in deleteForm: $form.remove()
FormRemoved ==
    /\ ~hung /\ microtasks = <<>>
    /\ \E key \in closing :
           /\ forms' = [k \in DOMAIN forms \ {key} |-> forms[k]]
           /\ closing' = closing \ {key}
    /\ log' = Log("formRemoved", 0, World)
    /\ UNCHANGED <<handlingMessage, redisUpdateCallbacks, args, robots, objects, trajectories,
                   cameras, scene, heap, updatingDepth, updatingColor, microtasks, images,
                   loads, hung, converting, arrived, dropped, processed, wireVars, callVars, server>>

Next ==
    \/ OnMessage
    \/ OnMessageDropped
    \/ HandleMessage
    \/ RunMicrotask
    \/ ImageLoaded
    \/ LoadDone
    \/ FormRemoved

vars == <<pageVars, wireVars, callVars, server>>

Spec == Init /\ [][Next]_vars

\* ------------------------------------------------------------------------
\* Properties of the page
\* ------------------------------------------------------------------------

\* the entity a callback was registered for is the one installed under its key
BindingLive(keyComponent, h) == Installed(World, h.components, keyComponent, h.ent)

\* C1: after a model for key K is replaced by a model that declares other
\* update keys, only the bindings of the new model are active: every
\* registered callback, and every handler that an update invokes, targets the
\* entity installed under its key, never the torn-down one.
C1_OnlyNewBindings ==
    /\ \A key \in DOMAIN redisUpdateCallbacks :
           \A i \in DOMAIN redisUpdateCallbacks[key] :
               BindingLive(redisUpdateCallbacks[key][i].key, redisUpdateCallbacks[key][i].val)
    /\ \A i \in DOMAIN log.calls : log.calls[i].live

\* the key owns no entity and no callback
Absent(key) ==
    /\ key \notin DOMAIN robots \cup DOMAIN objects \cup DOMAIN cameras \cup DOMAIN trajectories
    /\ \A k \in DOMAIN redisUpdateCallbacks :
           \A i \in DOMAIN redisUpdateCallbacks[k] : redisUpdateCallbacks[k][i].key # key

\* C2: once a batch has been processed, every key it deleted is absent, for
\* each kind of entity: the entity is in no registry and owns no binding.
C2_DeleteRemoves ==
    (log.op = "handleMessage" /\ ~log.thrown) => \A key \in log.deleted : Absent(key)

\* C3: at most one message is being converted or processed at any time, and a
\* message that arrived while handlingMessage was true is neither queued nor
\* processed, then or later.
C3_OneBatchAtATime ==
    /\ Len(converting) <= 1
    /\ converting # <<>> => handlingMessage
    /\ \A i \in DOMAIN converting : converting[i].id \notin dropped
    /\ dropped \cap processed = {}

\* a message was dropped while another was converted, and both that message
\* and a later one were processed
C3_Witness ==
    \E d \in dropped : (d - 1) \in processed /\ (d + 1) \in processed

\* C4: after a batch that failed, the loop is not wedged: handlingMessage is
\* true only while a message is being converted, so the next message that
\* arrives is accepted.
C4_NotWedged == converting = <<>> => ~handlingMessage

\* the step is handleMessage on a buffer that parseMessage fails on
MalformedHandled ==
    /\ converting # <<>>
    /\ converting' # converting
    /\ ParseMessage(Head(converting).buffer).st # "ok"

\* C5: handling a message that parseMessage fails on creates and destroys no
\* entity, adds and removes no binding, invokes no handler, requests no
\* render and changes no form.
C5_NoPartialEffect ==
    [][MalformedHandled =>
          /\ UNCHANGED <<redisUpdateCallbacks, args, robots, objects, trajectories, cameras,
                         scene, heap, forms, closing, microtasks, images, loads>>
          /\ log'.calls = <<>>
          /\ log'.renders = 0]_vars

\* a malformed message that held a whole update of a bound key before its
\* error was handled on a page with entities and bindings
C5_Witness ==
    /\ log.op = "handleMessage"
    /\ log.malformed
    /\ scene # {}
    /\ <<112>> \in DOMAIN redisUpdateCallbacks

\* C8: processing one batch requests no more than one render.
C8_OneRenderPerBatch == log.op = "handleMessage" => log.renders <= 1

\* the step is the completion of a decode whose camera is no longer installed
StaleCompletion ==
    /\ log'.op = "imageDecoded"
    /\ microtasks' # microtasks \/ images' # images
    /\ \A key \in DOMAIN cameras : cameras[key] # log'.id

\* C9: the completion of a decode whose camera was deleted or replaced
\* changes nothing of that entity and requests no render.
C9_StaleCompletionDiscarded ==
    [][StaleCompletion => heap'[log'.id] = heap[log'.id] /\ log'.renders = 0]_vars

\* the decodes of a stream of a camera that have not completed
Outstanding(ent, stream) ==
    Cardinality({ i \in DOMAIN microtasks :
                     microtasks[i].ent = ent /\ microtasks[i].stream = stream })
    + Cardinality({ i \in DOMAIN images : images[i].ent = ent /\ images[i].stream = stream })

\* C10: for each camera and each stream at most one decode is outstanding,
\* and the stream's flag is set while it is.
C10_OneDecodePerStream ==
    \A ent \in DOMAIN heap :
        /\ Outstanding(ent, "depth") <= 1
        /\ Outstanding(ent, "color") <= 1
        /\ Outstanding(ent, "depth") = 1 => updatingDepth
        /\ Outstanding(ent, "color") = 1 => updatingColor

\* a depth image arrived while the decode of an earlier one was outstanding,
\* and that decode is still the only one
C10_Witness ==
    /\ log.op = "handleMessage"
    /\ \E i \in DOMAIN log.calls :
           /\ log.calls[i].role = "depth"
           /\ log.calls[i].via = "dispatch"
           /\ log.calls[i].busy
           /\ Outstanding(log.calls[i].ent, "depth") = 1

\* C11: of a depth and a color decode of one camera that are in flight
\* together, the completion of the first requests no render and the
\* completion of the second requests exactly one.
C11_PairedFrameRendersOnce ==
    (log.op = "imageDecoded" /\ ~log.thrown) =>
        /\ log.frame = "first" => log.renders = 0
        /\ log.frame = "second" => log.renders = 1

\* the step is handleMessage on a batch in which a key bound to an idle image
\* stream of a camera carries a payload whose header names no OpenCV type
BadImageHandled ==
    /\ converting # <<>>
    /\ converting' # converting
    /\ ParseMessage(Head(converting).buffer).st = "ok"
    /\ \E u \in Range(ParseMessage(Head(converting).buffer).toUpdate) :
           /\ u.val.t = "binary"
           /\ GetOpenCvType(u.val.v).type = "custom"
           /\ u.key \in DOMAIN redisUpdateCallbacks
           /\ \E h \in Range(redisUpdateCallbacks[u.key]) :
                  h.val.role \in {"depth", "color"} /\ ~StreamBusy(World, h.val.role)

\* C12: a batch with a bad image payload is processed to its end: no error
\* leaves handleMessage, the deletes of the batch are applied, and the
\* frames and dimensions of every camera are what they were.
C12_BadImageIsLocal ==
    [][BadImageHandled =>
          /\ ~log'.thrown
          /\ \A key \in Range(ParseMessage(Head(converting).buffer).toDelete) :
                 PropertyKey(key) \in log'.deleted
          /\ \A ent \in DOMAIN heap : heap'[ent].redisgl = heap[ent].redisgl]_vars

\* the callbacks that the entity under a component key owns
Owned(callbacks, keyComponent) ==
    UNION { { <<key, callbacks[key][i]>> :
                  i \in { j \in DOMAIN callbacks[key] : callbacks[key][j].key = keyComponent } } :
            key \in DOMAIN callbacks }

\* the step is handleMessage on a batch with a model update for the live key
\* that is no JSON document or lacks the geometry of its kind; the batch
\* neither configures a namespace nor deletes the key
FailedModelHandled(key) ==
    /\ converting # <<>>
    /\ converting' # converting
    /\ key \in DOMAIN robots \cup DOMAIN objects \cup DOMAIN cameras \cup DOMAIN trajectories
    /\ ParseMessage(Head(converting).buffer).st = "ok"
    /\ \A u \in Range(ParseMessage(Head(converting).buffer).toUpdate) : ~IsArgsKey(u.key)
    /\ \A d \in Range(ParseMessage(Head(converting).buffer).toDelete) : PropertyKey(d) # key
    /\ \E u \in Range(ParseMessage(Head(converting).buffer).toUpdate) :
           /\ u.key = key
           /\ u.val.t = "string"
           /\ \/ u.val.v \notin DOMAIN JsonDocs
              \/ key \in DOMAIN objects /\ "graphics" \notin DOMAIN JsonDocs[u.val.v]
              \/ key \in DOMAIN robots /\ "articulated_body" \notin DOMAIN JsonDocs[u.val.v]

\* C13: a model update that cannot be parsed or built leaves the entity that
\* is live under its key in its registry and in the scene, with the
\* callbacks it owns unchanged.
C13_FailedModelKeepsEntity ==
    [][\A key \in DOMAIN robots \cup DOMAIN objects \cup DOMAIN cameras \cup DOMAIN trajectories :
          FailedModelHandled(key) =>
              /\ UNCHANGED <<robots, objects, cameras, trajectories, scene>>
              /\ Owned(redisUpdateCallbacks', key) = Owned(redisUpdateCallbacks, key)]_vars

\* the object "o" is live and bound while its form holds a model without
\* graphics that the last batch brought
C13_Witness ==
    /\ log.op = "handleMessage"
    /\ ~log.thrown
    /\ <<111>> \in DOMAIN objects
    /\ objects[<<111>>] \in scene
    /\ Owned(redisUpdateCallbacks, <<111>>) # {}
    /\ <<111>> \in DOMAIN forms
    /\ forms[<<111>>].v = Doc(88)

\* the page is idle: no message is being converted and no callback is due
Idle == converting = <<>> /\ microtasks = <<>> /\ ~hung

\* C19: no update is lost: once the page is idle, the last message that
\* arrived has been processed, so that the values and the deletes it carried
\* were dispatched, also when it arrived while another batch was in hand.
C19_NoUpdateLost == (Idle /\ arrived > 0) => arrived \in processed

\* the step is handleMessage on a batch of deletes only, none of which names
\* a live entity
UnknownKeysDeleted ==
    /\ converting # <<>>
    /\ converting' # converting
    /\ ParseMessage(Head(converting).buffer).st = "ok"
    /\ ParseMessage(Head(converting).buffer).toUpdate = <<>>
    /\ ParseMessage(Head(converting).buffer).toDelete # <<>>
    /\ \A k \in Range(ParseMessage(Head(converting).buffer).toDelete) :
           PropertyKey(k) \notin DOMAIN robots \cup DOMAIN objects
                                 \cup DOMAIN cameras \cup DOMAIN trajectories

\* C20: the delete of a key that names no live entity changes no registry, no
\* binding and nothing of the scene, and asks for no render.
C20_UnknownDeleteIsNoOp ==
    [][UnknownKeysDeleted =>
          /\ UNCHANGED <<robots, objects, cameras, trajectories, scene, heap,
                         redisUpdateCallbacks>>
          /\ ~log'.thrown
          /\ log'.renders = 0]_vars

\* the key of an entity that was deleted before is deleted again, with
\* entities in the scene
C20_Witness ==
    /\ log.op = "handleMessage" /\ ~log.thrown
    /\ log.deleted # {} /\ log.renders = 0
    /\ log.deleted \cap (DOMAIN robots \cup DOMAIN objects
                            \cup DOMAIN cameras \cup DOMAIN trajectories) = {}
    /\ scene # {}
    /\ redisUpdateCallbacks # <<>>

\* the registry of the kind of a handler's entity
RegistryOf(h) ==
    CASE h.components = "robots" -> robots
      [] h.components = "objects" -> objects
      [] h.components = "cameras" -> cameras
      [] OTHER -> trajectories

\* C21: no dangling binding: every handler kept in redisUpdateCallbacks under
\* (key, keyComponent) belongs to an entity that is live under keyComponent
\* and is the entity object installed there.
C21_NoDanglingBinding ==
    \A key \in DOMAIN redisUpdateCallbacks :
        \A b \in Range(redisUpdateCallbacks[key]) :
            /\ b.key \in DOMAIN RegistryOf(b.val)
            /\ RegistryOf(b.val)[b.key] = b.val.ent

\* the registry a model record under key goes to with the configurations a:
\* the first of cameras, objects, robots, trajectories with a non-empty
\* prefix of the key, "" when there is none
ModelKindOf(a, key) ==
    LET hit == { i \in DOMAIN ModelOrder :
                    \E ns \in DOMAIN a :
                        /\ PrefixField(ModelOrder[i]) \in DOMAIN a[ns]
                        /\ a[ns][PrefixField(ModelOrder[i])] # <<>>
                        /\ StartsWith(key, a[ns][PrefixField(ModelOrder[i])]) }
    IN  IF hit = {} THEN ""
        ELSE ModelOrder[CHOOSE i \in hit : \A j \in hit : i <= j]

\* the update u is a model record that an entity can be built from
GoodModel(a, u) ==
    /\ u.val.t = "string"
    /\ ModelKindOf(a, u.key) # ""
    /\ JsonParse(u.val).ok
    /\ ~CreateThrows(KindOf(ModelKindOf(a, u.key)), JsonParse(u.val).v)

\* the update u is a model record that fails to parse
BadModel(a, u) ==
    /\ u.val.t = "string"
    /\ ModelKindOf(a, u.key) # ""
    /\ \/ ~JsonParse(u.val).ok
       \/ CreateThrows(KindOf(ModelKindOf(a, u.key)), JsonParse(u.val).v)

\* C22: a failed model update is skipped alone: when a model record of a
\* batch fails to parse, every good model record of the batch, before or
\* after it, has its entity in the registry of its kind after the batch.
C22_FailedModelSkippedAlone ==
    [][(/\ converting # <<>>
        /\ converting' # converting
        /\ ParseMessage(Head(converting).buffer).st = "ok"
        /\ \E u \in Range(ParseMessage(Head(converting).buffer).toUpdate) :
               BadModel(args', u))
       => \A v \in Range(ParseMessage(Head(converting).buffer).toUpdate) :
              GoodModel(args', v) =>
                  v.key \in DOMAIN (CASE ModelKindOf(args', v.key) = "robots" -> robots'
                                      [] ModelKindOf(args', v.key) = "objects" -> objects'
                                      [] ModelKindOf(args', v.key) = "cameras" -> cameras'
                                      [] OTHER -> trajectories')]_vars

\* C23: unbound keys: a field of a model that is absent or the empty string
\* registers nothing, so that redisUpdateCallbacks has no entry under the
\* empty string and none under "undefined", the name an absent field turns
\* into (no model of a server names a key "undefined").
C23_UnboundKeys ==
    \A key \in DOMAIN redisUpdateCallbacks : key \notin {<<>>, UndefinedString}

\* the registry named components
Registry(components) ==
    CASE components = "robots" -> robots
      [] components = "objects" -> objects
      [] components = "cameras" -> cameras
      [] OTHER -> trajectories

\* the step is handleMessage on a batch of plain updates (no configuration,
\* no model record) that raises no error
UpdatesDispatched ==
    /\ converting # <<>>
    /\ converting' # converting
    /\ ParseMessage(Head(converting).buffer).st = "ok"
    /\ \A u \in Range(ParseMessage(Head(converting).buffer).toUpdate) :
           ~IsArgsKey(u.key) /\ ModelKindOf(args, u.key) = ""
    /\ ~log'.thrown /\ ~hung'

\* C24: dispatch reaches every binding: an update of key k invokes exactly
\* once the handler of every role for which the model of a live entity
\* declares k, for distinct entities and for two roles of one entity alike.
C24_DispatchReachesEveryBinding ==
    [][UpdatesDispatched =>
          \A u \in Range(ParseMessage(Head(converting).buffer).toUpdate) :
              \A components \in Range(ModelOrder) :
                  \A key \in DOMAIN Registry(components) :
                      \A reg \in Range(Registrations(components)) :
                          Field(heap[Registry(components)[key]].model, reg[1]) = u.key
                          => Cardinality({ i \in DOMAIN log'.calls :
                                             /\ log'.calls[i].key = u.key
                                             /\ log'.calls[i].ent = Registry(components)[key]
                                             /\ log'.calls[i].role = reg[2] }) = 1]_vars

\* the kinds whose prefix in the configuration doc is a non-empty prefix of key
PrefixKinds(doc, key) ==
    { components \in Range(ModelOrder) :
          /\ PrefixField(components) \in DOMAIN doc
          /\ doc[PrefixField(components)] # <<>>
          /\ StartsWith(key, doc[PrefixField(components)]) }

\* the step is handleMessage on a batch that holds one namespace
\* configuration and nothing else, and raises no error
ConfigurationHandled ==
    /\ converting # <<>>
    /\ converting' # converting
    /\ ParseMessage(Head(converting).buffer).st = "ok"
    /\ Len(ParseMessage(Head(converting).buffer).toUpdate) = 1
    /\ ParseMessage(Head(converting).buffer).toDelete = <<>>
    /\ IsArgsKey(ParseMessage(Head(converting).buffer).toUpdate[1].key)
    /\ JsonParse(ParseMessage(Head(converting).buffer).toUpdate[1].val).ok
    /\ ~log'.thrown

\* C25: namespace re-scan: once a configuration is supplied, every known key
\* that starts with the non-empty prefix of one kind, and holds a model of
\* that kind, is instantiated in the registry of that kind, whatever the
\* other prefixes are; a key that matches no prefix creates nothing.
C25_NamespaceRescan ==
    [][ConfigurationHandled =>
          LET doc == JsonParse(ParseMessage(Head(converting).buffer).toUpdate[1].val).v
          IN  \A key \in DOMAIN forms :
                  /\ \A components \in Range(ModelOrder) :
                         (/\ PrefixKinds(doc, key) = {components}
                          /\ JsonParse(forms[key]).ok
                          /\ ~CreateThrows(KindOf(components), JsonParse(forms[key]).v))
                         => /\ key \in DOMAIN Registry(components)'
                            /\ Registry(components)'[key] > Len(heap)
                  /\ PrefixKinds(doc, key) = {} =>
                         \A components \in Range(ModelOrder) :
                             key \in DOMAIN Registry(components)' =>
                                 /\ key \in DOMAIN Registry(components)
                                 /\ Registry(components)'[key] = Registry(components)[key]]_vars

\* C26: entity keys are unique across kinds: a key is live in at most one of
\* robots, objects, cameras and trajectories.
C26_KeysUniqueAcrossKinds ==
    \A c1 \in Range(ModelOrder), c2 \in Range(ModelOrder) :
        c1 # c2 => DOMAIN Registry(c1) \cap DOMAIN Registry(c2) = {}

\* the step removed an entity from a registry
EntityRemoved ==
    \E components \in Range(ModelOrder) :
        DOMAIN Registry(components)' # DOMAIN Registry(components)

\* C27: render reflects visual change: a batch of plain updates and deletes
\* asks for a render when a handler gave an entity of the scene a new
\* position, orientation, scale, matrix, joint positions or trail point, or a
\* delete removed an entity, and only when a handler ran or an entity was
\* removed; so does a batch that only appends a position to a trajectory.
C27_RenderReflectsChange ==
    [][UpdatesDispatched =>
          /\ ((\E ent \in scene : heap'[ent].last # heap[ent].last) \/ EntityRemoved)
                 => log'.renders > 0
          /\ log'.renders > 0 => (log'.calls # <<>> \/ EntityRemoved)]_vars

\* the step is handleMessage on a batch that deletes keys and raises no error
DeletesHandled ==
    /\ converting # <<>>
    /\ converting' # converting
    /\ ParseMessage(Head(converting).buffer).st = "ok"
    /\ ParseMessage(Head(converting).buffer).toDelete # <<>>
    /\ ~log'.thrown /\ ~hung'

\* C28: stage order within a batch: configuration, models, updates, deletes,
\* render. A key that the batch both gives a model and deletes is in no
\* registry and owns no binding after the batch, and in a batch of plain
\* updates and deletes every handler that an entity deleted by the batch had
\* bound to a key the batch updates was called with that update.
C28_StageOrder ==
    [][DeletesHandled =>
          \A d \in Range(ParseMessage(Head(converting).buffer).toDelete) :
              /\ (\E u \in Range(ParseMessage(Head(converting).buffer).toUpdate) :
                      u.key = PropertyKey(d) /\ GoodModel(args', u))
                  => /\ PropertyKey(d) \notin DOMAIN robots' \cup DOMAIN objects'
                                             \cup DOMAIN cameras' \cup DOMAIN trajectories'
                     /\ Owned(redisUpdateCallbacks', PropertyKey(d)) = {}
              /\ \A u \in Range(ParseMessage(Head(converting).buffer).toUpdate) :
                     (/\ UpdatesDispatched
                      /\ u.key \in DOMAIN redisUpdateCallbacks) =>
                         \A b \in Range(redisUpdateCallbacks[u.key]) :
                             (/\ b.key = PropertyKey(d)
                              /\ Registry(b.val.components)[b.key] = b.val.ent
                              /\ b.key \notin DOMAIN Registry(b.val.components)')
                             => \E i \in DOMAIN log'.calls :
                                    /\ log'.calls[i].key = u.key
                                    /\ log'.calls[i].ent = b.val.ent]_vars

\* a decode of a stream of a camera is outstanding after the step
OutstandingAfter(ent, stream) ==
    \/ \E d \in Range(microtasks') : d.ent = ent /\ d.stream = stream
    \/ \E d \in Range(images') : d.ent = ent /\ d.stream = stream

\* C35: an image update of a camera is not dropped because of the decode
\* of another camera: when an image handler of a live camera finds the flag
\* of its stream set, a decode of that stream of the same camera is
\* outstanding, not only one of another camera.
C35_CamerasDoNotBlockEachOther ==
    [][log'.op = "handleMessage" =>
          \A i \in DOMAIN log'.calls :
              LET c == log'.calls[i]
              IN  (/\ c.role \in {"depth", "color"}
                   /\ c.live
                   /\ c.busy
                   /\ \E other \in scene' \ {c.ent} : OutstandingAfter(other, c.role)) =>
                      OutstandingAfter(c.ent, c.role)]_vars

\* a decode of the stream is outstanding whose completion will run: a
\* resolved promise, or an image that the browser can load
Releasable(stream) ==
    \/ \E d \in Range(microtasks) : d.stream = stream
    \/ \E d \in Range(images) : d.stream = stream /\ Decodable(d.img)

\* C36: a flag that was set is cleared in the end, also after an error of
\* the parsing of the payload or when the image never loads: the flags being
\* cleared by the completion of a decode only, whenever updatingDepth or
\* updatingColor is set a decode of its stream is outstanding whose
\* completion will run.
C36_DecodeFlagReleased ==
    /\ updatingDepth => Releasable("depth")
    /\ updatingColor => Releasable("color")

\* a step is the load callback of an entity that is no longer the one
\* installed under its key: it was deleted or replaced
StaleLoad ==
    /\ log'.op = "loadCallback"
    /\ \E load \in loads \ loads' :
           /\ load.ent = log'.id
           /\ ~Installed(World, load.components, load.key, load.ent)

\* C38: the load callback of an entity that was deleted or replaced under
\* its key requests no render and does not run the creation callback (no
\* READY is posted), and it changes nothing else of the page.
C38_StaleLoadIgnored ==
    [][StaleLoad =>
          /\ log'.renders = 0
          /\ log'.ready = 0
          /\ UNCHANGED <<redisUpdateCallbacks, robots, objects, trajectories, cameras,
                         scene, heap, forms>>]_vars

\* the graphics of a robot have loaded after the robot was deleted
C38_Witness ==
    /\ log.op = "loadCallback"
    /\ heap[log.id].kind = "robot"
    /\ log.id \notin scene
    /\ log.id \notin Range(robots)
    /\ ~(\E load \in loads : load.ent = log.id)
    /\ log.renders = 0

\* ------------------------------------------------------------------------
\* Functions of the program called on their own
\* ------------------------------------------------------------------------

\* trajectory.js: var LEN_TRAJECTORY_TRAIL = 500
LEN_TRAJECTORY_TRAIL == 500

\* Trajectory.create: idx, len, the position buffer of LEN_TRAJECTORY_TRAIL + 1
\* slots that both lines share, and the draw range <<start, count>> of each
TrajectoryCreate ==
    [idx |-> 0, len |-> 0, positions |-> [i \in 1..(LEN_TRAJECTORY_TRAIL + 1) |-> 0],
     range1 |-> <<0, 0>>, range2 |-> <<0, 0>>]

\* a wrap of the index that leaves slot 0 as it is
WrappedOnly(spec, pos) == [spec EXCEPT !.idx = 1]

\* a wrap that writes to slot 0 the position of the slot before the last
WrappedBehind(spec, pos) ==
    [spec EXCEPT !.positions[1] = spec.positions[LEN_TRAJECTORY_TRAIL], !.idx = 1]

\* appendPosition, if (spec.idx > LEN_TRAJECTORY_TRAIL) { ... }: the position
\* is written to slot 0 as well
Wrapped(spec, pos) == [spec EXCEPT !.positions[1] = pos, !.idx = 1]

\* the draw ranges appendPosition sets for the index and length it has reached
Drawn(spec) ==
    IF spec.len < LEN_TRAJECTORY_TRAIL
    THEN [spec EXCEPT !.len = @ + 1, !.range1 = <<0, spec.len + 1>>]
    ELSE [spec EXCEPT !.range1 = <<0, spec.idx>>,
                      !.range2 = <<spec.idx, LEN_TRAJECTORY_TRAIL - spec.idx + 1>>]

\* an append that lets the index pass the last slot before it wraps
AppendWrappingLate(spec, pos) ==
    IF spec.idx + 1 > LEN_TRAJECTORY_TRAIL + 1
    THEN Drawn(Wrapped([spec EXCEPT !.positions[spec.idx + 1] = pos], pos))
    ELSE Drawn([spec EXCEPT !.positions[spec.idx + 1] = pos, !.idx = @ + 1])

\* export function appendPosition(traj, val) on traj.redisgl and the two
\* geometries, for the position pos that val holds
AppendToTrail(spec, pos) ==
    IF spec.idx + 1 > LEN_TRAJECTORY_TRAIL
    THEN Drawn(Wrapped([spec EXCEPT !.positions[spec.idx + 1] = pos], pos))
    ELSE Drawn([spec EXCEPT !.positions[spec.idx + 1] = pos, !.idx = @ + 1])

\* a reset that leaves the length as it is
ResetKeepingLength(spec) ==
    [spec EXCEPT !.idx = 0, !.range1 = <<0, 0>>, !.range2 = <<0, 0>>]

\* export function reset(traj): idx and len are set to 0 and both draw
\* ranges to (0, 0); the position buffer stays the one create allocated
TrajectoryReset(spec) ==
    [spec EXCEPT !.idx = 0, !.len = 0, !.range1 = <<0, 0>>, !.range2 = <<0, 0>>]

\* the numbers of appends after which reset is called: on a new trail, on
\* a trail partly filled, on a full one, after the wrap and after two rounds
ResetPoints ==
    {0, 3, LEN_TRAJECTORY_TRAIL, LEN_TRAJECTORY_TRAIL + 3, 2 * LEN_TRAJECTORY_TRAIL}

\* a depth value in millimetres, by what the tests of renderPointCloud see of
\* it: zero, a negative number, a positive number, NaN or Infinity
DepthValues == {"0", "-1", "1", "NaN", "Infinity"}

\* the loops of renderPointCloud over y and x, from the pixel of raster index
\* i on: buffer holds <<y, x>> of the points written so far
RECURSIVE SamplePoints(_, _, _)
SamplePoints(spec, i, buffer) ==
    LET numCols == spec.depthDim[2]
        y == i \div numCols
        x == i % numCols
        d == spec.depthImage[numCols * y + x + 1]
    IN  IF i >= spec.depthDim[1] * numCols THEN buffer
        ELSE IF y % DOWNSCALE_FACTOR # 0 \/ x % DOWNSCALE_FACTOR # 0
        THEN SamplePoints(spec, i + 1, buffer)
        ELSE IF d = "NaN" \/ d \in {"0", "-1"}
        THEN SamplePoints(spec, i + 1, buffer)
        ELSE SamplePoints(spec, i + 1, Append(buffer, <<y, x>>))

\* function renderPointCloud(camera), the points: the pixels written to the
\* position buffer and the draw range <<start, count>>
RenderPointCloud(spec) ==
    [points |-> SamplePoints(spec, 0, <<>>),
     drawRange |-> <<0, Len(SamplePoints(spec, 0, <<>>))>>]

\* Camera.create: the redisgl field, the position and color buffers of the
\* points (none before the first depth frame), their draw range, and the
\* line vertices of the view frame (all zero)
CameraCreate ==
    [redisgl |-> [colorImage |-> Null, depthImage |-> Null, depthDim |-> <<0, 0, 0>>,
                  colorDim |-> <<0, 0, 0>>, intrinsic |-> Null],
     position |-> <<>>, color |-> <<>>, drawRange |-> <<0, 0>>, frame |-> Null]

\* function renderCameraViewFrame(camera): the corners <<y, x>> of the depth
\* frame that the lines are drawn to, projected with K
RenderCameraViewFrame(camera) ==
    LET spec == camera.redisgl
        numRows == spec.depthDim[1]
        numCols == spec.depthDim[2]
    IN  IF spec.intrinsic = Null THEN camera
        ELSE [camera EXCEPT !.frame =
                 [K |-> spec.intrinsic,
                  corners |-> << <<0, 0>>, <<0, numCols - 1>>,
                                 <<numRows - 1, numCols - 1>>, <<numRows - 1, 0>> >>]]

\* let idxRow = (numRows - y) * numCols * numChannels; let idxCol = x *
\* numChannels; spec.colorImage[idxRow + idxCol + c]
ColorIndex(spec, y, x, c) ==
    (spec.depthDim[1] - y) * spec.depthDim[2] * spec.colorDim[3] + x * spec.colorDim[3] + c

\* spec.colorImage[i] / 255, a value of the color buffer being the fraction
\* <<numerator, denominator>>: a read past the end gives undefined, and
\* undefined / 255 is NaN, written <<0, 0>>
ColorRead(spec, i) ==
    IF i < Len(spec.colorImage.v) THEN <<spec.colorImage.v[i + 1], 255>> ELSE <<0, 0>>

\* a test of registration that does not compare the dimensions
AnyColorFrame(spec) == spec.colorImage # Null

\* the color image is registered to depth: not (spec.colorImage === null ||
\* numColorRows != numRows || numColorCols != numCols)
Registered(spec) ==
    /\ spec.colorImage # Null
    /\ spec.colorDim[1] = spec.depthDim[1]
    /\ spec.colorDim[2] = spec.depthDim[2]

\* function renderPointCloud(camera) on the buffers of the camera: point idx
\* is written to the floats 3 * idx + 0..2 of the position buffer and, with
\* a registered color image, of the color buffer; a typed array ignores a
\* write past its end
RenderCameraPointCloud(camera) ==
    LET spec == camera.redisgl
        points == SamplePoints([depthDim |-> spec.depthDim,
                                 depthImage |-> spec.depthImage.v], 0, <<>>)
        Point(i) == (i - 1) \div 3
        position == [i \in 1..Len(camera.position) |->
                        IF Point(i) < Len(points)
                        THEN <<points[Point(i) + 1], (i - 1) % 3>>
                        ELSE camera.position[i]]
        color == [i \in 1..Len(camera.color) |->
                     IF Point(i) < Len(points)
                     THEN ColorRead(spec, ColorIndex(spec, points[Point(i) + 1][1],
                                                     points[Point(i) + 1][2], (i - 1) % 3))
                     ELSE camera.color[i]]
    IN  IF spec.depthImage = Null \/ spec.intrinsic = Null THEN camera
        ELSE IF ~Registered(spec)
        THEN [camera EXCEPT !.position = position, !.drawRange = <<0, Len(points)>>]
        ELSE [camera EXCEPT !.position = position, !.drawRange = <<0, Len(points)>>,
                            !.color = color]

\* export function updateIntrinsic(camera, val) on the camera
CameraUpdateIntrinsic(camera, val) ==
    RenderCameraPointCloud(
        RenderCameraViewFrame([camera EXCEPT !.redisgl.intrinsic = val]))

\* updateDepthImage, if (spec.depthImage === null) { ... }: the position
\* buffer of 3 * img.length / DOWNSCALE_FACTOR^2 floats, all zero (written
\* <<>>, a coordinate of a point being <<pixel, axis>>), and the color
\* buffer of the same length, all 1.0
CreateBuffers(camera, img) ==
    LET len_buffer == (3 * Len(img)) \div (DOWNSCALE_FACTOR * DOWNSCALE_FACTOR)
    IN  IF camera.redisgl.depthImage # Null THEN camera
        ELSE [camera EXCEPT !.position = [i \in 1..len_buffer |-> <<>>],
                            !.color = [i \in 1..len_buffer |-> <<1, 1>>],
                            !.drawRange = <<0, 0>>]

\* the callback of promise_img.then in updateDepthImage, on the camera
DepthImageDecoded(camera, img, dim) ==
    RenderCameraPointCloud(
        RenderCameraViewFrame(
            [CreateBuffers(camera, img) EXCEPT !.redisgl.depthImage = Pixels(img),
                                               !.redisgl.depthDim = dim]))

\* the callback of promise_img.then in updateColorImage, on the camera
ColorImageDecoded(camera, img, dim) ==
    RenderCameraPointCloud([camera EXCEPT !.redisgl.colorImage = Pixels(img),
                                          !.redisgl.colorDim = dim])

\* the depth images a decode delivers, [img, dim]: one value per pixel in 1
\* x 1, 2 x 2, 3 x 3 and 2 x 4 pixels, or four values per pixel; all
\* depths positive, or none at the first pixel
DepthDecodes ==
    { [img |-> [i \in 1..(dim[1] * dim[2] * dim[3]) |-> IF i = 1 THEN first ELSE "1"],
       dim |-> dim] :
        dim \in { <<1, 1, 1>>, <<2, 2, 1>>, <<3, 3, 1>>, <<2, 4, 1>>, <<1, 1, 4>>,
                  <<3, 3, 4>> },
        first \in { "1", "0" } }

\* the color images a decode delivers: four channels, each value the number
\* of its place in the image
ColorDecodes ==
    { [img |-> [i \in 1..(dim[1] * dim[2] * dim[3]) |-> i], dim |-> dim] :
        dim \in { <<2, 2, 4>>, <<3, 3, 4>>, <<2, 4, 4>> } }

\* depth frames of 4 x 4 pixels: any value at each of the four pixels of even
\* row and column, one value at all the others
DepthFrames ==
    { [depthDim |-> <<4, 4>>,
       depthImage |-> [i \in 1..16 |-> IF i \in {1, 3, 9, 11}
                                        THEN f[i] ELSE rest]] :
          f \in [{1, 3, 9, 11} -> DepthValues], rest \in DepthValues }

\* String.prototype.toLowerCase on the characters of a joint type
ToLowerCase(ch) ==
    CASE ch = "R" -> "r" [] ch = "P" -> "p" [] ch = "F" -> "f"
      [] ch = "X" -> "x" [] ch = "Y" -> "y" [] ch = "Z" -> "z"
      [] OTHER -> ch

\* a quaternion is the sequence of the rotations it composes, each
\* [axis, angle], the identity being the empty sequence: a.multiply(b) is
\* a \o b, and quat.premultiply(a) is a.multiply(quat)
Multiply(quat, a) == quat \o a

Premultiply(quat, a) == a \o quat

\* THREE.Quaternion.setFromAxisAngle(axis, angle): the angle 0 gives the
\* identity (0, 0, 0, 1)
SetFromAxisAngle(axis, angle) ==
    IF angle = 0 THEN <<>> ELSE <<[axis |-> axis, angle |-> angle]>>

\* Robot.create, one rigid body rb = [T_to_parent, joint]: the fields kept in
\* body.redisgl and the body's own quaternion and position
BodyCreate(rb) ==
    [quaternion |-> rb.T_to_parent.ori,
     position |-> rb.T_to_parent.pos,
     redisgl |-> [quaternion |-> rb.T_to_parent.ori,
                  position |-> rb.T_to_parent.pos,
                  jointType |-> rb.joint.type[1],
                  jointAxis |-> CASE ToLowerCase(rb.joint.type[2]) = "x" -> <<1, 0, 0>>
                                  [] ToLowerCase(rb.joint.type[2]) = "y" -> <<0, 1, 0>>
                                  [] ToLowerCase(rb.joint.type[2]) = "z" -> <<0, 0, 1>>
                                  [] OTHER -> Undefined]]

\* an update that starts from the transform each body has
UpdateQFromCurrent(bodies, q) ==
    [i \in DOMAIN bodies |->
        LET spec == bodies[i].redisgl
            quat == IF ToLowerCase(spec.jointType) = "r"
                    THEN SetFromAxisAngle(spec.jointAxis, q[i]) ELSE <<>>
            pos == IF ToLowerCase(spec.jointType) = "p"
                   THEN [k \in 1..3 |-> spec.jointAxis[k] * q[i]]
                   ELSE <<0, 0, 0>>
        IN  [bodies[i] EXCEPT !.quaternion = Premultiply(quat, bodies[i].quaternion),
                              !.position = [k \in 1..3 |-> pos[k] + bodies[i].position[k]]]]

\* export function updateQ(robot, val), q being makeNumeric(val[0]), on the
\* bodies of robot.redisgl
UpdateQ(bodies, q) ==
    [i \in DOMAIN bodies |->
        LET spec == bodies[i].redisgl
            quat == IF ToLowerCase(spec.jointType) = "r"
                    THEN SetFromAxisAngle(spec.jointAxis, q[i]) ELSE <<>>
            pos == IF ToLowerCase(spec.jointType) = "p"
                   THEN [k \in 1..3 |-> spec.jointAxis[k] * q[i]]
                   ELSE <<0, 0, 0>>
        IN  [bodies[i] EXCEPT !.quaternion = Premultiply(quat, spec.quaternion),
                              !.position = [k \in 1..3 |-> pos[k] + spec.position[k]]]]

\* rigid bodies of a model: revolute, prismatic, fixed and unknown joints, in
\* either case of the letters, at the origin or at a rest transform
RigidBodies ==
    { [T_to_parent |-> T, joint |-> [type |-> type]] :
        T \in { [ori |-> <<>>, pos |-> <<0, 0, 0>>],
                 [ori |-> <<[axis |-> <<0, 1, 0>>, angle |-> 1]>>, pos |-> <<1, 2, 3>>] },
        type \in { <<"R", "Z">>, <<"r", "x">>, <<"P", "X">>, <<"p", "y">>,
                    <<"F", "I">>, <<"U", "z">> } }

\* buffers holding one payload at offset idx: a tag byte with or without its
\* high bit, a length in one of the three forms, and as many bytes as the
\* length declares, fewer, or more
PayloadBuffers ==
    { [idx |-> Len(before),
       buffer |-> before \o <<tag>> \o length \o bytes] :
        before \in { <<>>, <<2>> },
        tag \in { 0, 1, 2, 3, 129, 130, 131, 255 },
        length \in { <<0>>, <<2>>, <<125>>, <<126, 0, 2>>, <<126, 1, 0>>, <<126, 0>>,
                      <<127, 0, 0, 0, 0, 0, 0, 0, 2>>,
                      <<127, 0, 0, 0, 0, 0, 1, 0, 0>> },
        bytes \in { <<>>, <<104, 105>>, <<104, 105, 1>> } }

\* image payloads: a PNG and an EXR image with their headers, the empty
\* payload, a type word with no space after it, a type word whose size token
\* is empty or not ended by a space, and a header word that names no type
MatBuffers ==
    { PngPayload, ExrPayload, <<>>, <<49, 54>>, <<49, 54, 32>>, <<49, 54, 32, 49, 50>>,
      <<53, 32>>, <<53, 32, 51>>, <<53, 32, 32, 1, 1, 7>>, <<57, 32, 49, 32>>, <<32>> }

MaxAppends == 1005

MaxCalls == 2

MaxFrames == 4

\* the calls that are made
InitCalls ==
    /\ PageInit
    /\ server = ""
    /\ wBatch = [updates |-> <<>>, deletes |-> <<>>]
    /\ wBuf = <<>>
    /\ wOut = NoResult
    /\ wPc = "off"
    /\ \/ arg = [fn |-> "appendPosition", n |-> 0] /\ result = TrajectoryCreate
       \/ /\ arg = [fn |-> "reset", n |-> 0, since |-> 0, fresh |-> TrajectoryCreate]
          /\ result = TrajectoryCreate
       \/ arg \in { [fn |-> "renderPointCloud", spec |-> f] : f \in DepthFrames }
          /\ result = <<>>
       \/ arg = [fn |-> "camera", n |-> 0, call |-> "create"] /\ result = CameraCreate
       \/ arg \in { [fn |-> "parseOpenCvMat", buffer |-> b] : b \in MatBuffers }
          /\ result = <<>>
       \/ \E b \in PayloadBuffers :
            /\ arg = [fn |-> "parsePayload", buffer |-> b.buffer, idx |-> b.idx]
            /\ result = <<>>
       \/ \E rb0 \in RigidBodies, rb1 \in RigidBodies :
            /\ arg = [fn |-> "updateQ", n |-> 0, q |-> <<0, 0>>, before |-> <<0, 0>>,
                      robot |-> <<BodyCreate(rb0), BodyCreate(rb1)>>]
            /\ result = <<BodyCreate(rb0), BodyCreate(rb1)>>

\* Trajectory.appendPosition(traj, val) with the next position; the n-th
\* position appended is the number n. Where reset is called as well, arg
\* counts the appends since the last reset and holds a trail that create
\* made at that reset and that gets the same appends
CallAppendPosition ==
    /\ arg.fn \in {"appendPosition", "reset"}
    /\ arg.n < MaxAppends
    /\ arg' = IF arg.fn = "reset"
              THEN [arg EXCEPT !.n = @ + 1, !.since = @ + 1,
                               !.fresh = AppendToTrail(@, arg.n + 1)]
              ELSE [arg EXCEPT !.n = @ + 1]
    /\ result' = AppendToTrail(result, arg.n + 1)
    /\ UNCHANGED <<pageVars, wireVars, server>>

\* Trajectory.reset(traj) on the trail
CallReset ==
    /\ arg.fn = "reset"
    /\ arg.n \in ResetPoints
    /\ arg' = [arg EXCEPT !.since = 0, !.fresh = TrajectoryCreate]
    /\ result' = TrajectoryReset(result)
    /\ UNCHANGED <<pageVars, wireVars, server>>

\* Camera.updateIntrinsic(camera, val) on the camera
CallUpdateIntrinsic ==
    /\ arg.fn = "camera"
    /\ arg.n < MaxFrames
    /\ arg' = [arg EXCEPT !.n = @ + 1, !.call = "intrinsic"]
    /\ result' = CameraUpdateIntrinsic(result, Matrix(<<<<1, 0, 0>>, <<0, 1, 0>>, <<0, 0, 1>>>>))
    /\ UNCHANGED <<pageVars, wireVars, server>>

\* a depth or a color image of the camera has been decoded
CallImageDecoded ==
    /\ arg.fn = "camera"
    /\ arg.n < MaxFrames
    /\ \/ \E d \in DepthDecodes :
            /\ arg' = [arg EXCEPT !.n = @ + 1, !.call = "depth"]
            /\ result' = DepthImageDecoded(result, d.img, d.dim)
       \/ \E d \in ColorDecodes :
            /\ arg' = [arg EXCEPT !.n = @ + 1, !.call = "color"]
            /\ result' = ColorImageDecoded(result, d.img, d.dim)
    /\ UNCHANGED <<pageVars, wireVars, server>>

\* parseOpenCvMat(opencv_mat) on the payload
CallParseOpenCvMat ==
    /\ arg.fn = "parseOpenCvMat"
    /\ result = <<>>
    /\ result' = ParseOpenCvMat(arg.buffer)
    /\ UNCHANGED <<arg, pageVars, wireVars, server>>

\* renderPointCloud(camera) on a camera with the depth frame
CallRenderPointCloud ==
    /\ arg.fn = "renderPointCloud"
    /\ result = <<>>
    /\ result' = RenderPointCloud(arg.spec)
    /\ UNCHANGED <<arg, pageVars, wireVars, server>>

\* updateQ(robot, val) on the robot, with any joint positions; arg keeps
\* the robot as create made it and the joint positions of the update before
CallUpdateQ ==
    /\ arg.fn = "updateQ"
    /\ arg.n < MaxCalls
    /\ \E q \in [1..2 -> {0, 1, -2}] :
         /\ arg' = [arg EXCEPT !.n = @ + 1, !.q = q, !.before = arg.q]
         /\ result' = UpdateQ(result, q)
    /\ UNCHANGED <<pageVars, wireVars, server>>

\* parsePayload(buffer, idx)
CallParsePayload ==
    /\ arg.fn = "parsePayload"
    /\ result = <<>>
    /\ result' = ParsePayload(arg.buffer, arg.idx)
    /\ UNCHANGED <<arg, pageVars, wireVars, server>>

NextCalls ==
    \/ CallAppendPosition
    \/ CallReset
    \/ CallParsePayload
    \/ CallUpdateQ
    \/ CallRenderPointCloud
    \/ CallUpdateIntrinsic
    \/ CallImageDecoded
    \/ CallParseOpenCvMat

SpecCalls == InitCalls /\ [][NextCalls]_vars

\* the positions in the slots that a draw range <<start, count>> shows
Shown(range) == { result.positions[i + 1] : i \in range[1]..(range[1] + range[2] - 1) }

\* C14: after n appends to a trail of capacity C the length is min(n, C);
\* up to n = C one segment of n slots shows the positions 1..n in order; past
\* C two segments show C + 1 slots that hold exactly the latest C positions.
C14_TrailContent ==
    arg.fn = "appendPosition" =>
        /\ result.len = Min(arg.n, LEN_TRAJECTORY_TRAIL)
        /\ arg.n <= LEN_TRAJECTORY_TRAIL =>
               /\ result.range1 = <<0, arg.n>>
               /\ result.range2[2] = 0
               /\ \A i \in 1..arg.n : result.positions[i] = i
        /\ arg.n > LEN_TRAJECTORY_TRAIL =>
               /\ result.range1[2] >= 1
               /\ result.range2[2] >= 1
               /\ result.range1[2] + result.range2[2] = LEN_TRAJECTORY_TRAIL + 1
               /\ Shown(result.range1) \cup Shown(result.range2)
                      = (arg.n - LEN_TRAJECTORY_TRAIL + 1)..arg.n

\* five positions past the capacity have been appended and the oldest five
\* are in neither segment
C14_Witness ==
    /\ arg.fn = "appendPosition"
    /\ arg.n = LEN_TRAJECTORY_TRAIL + 5
    /\ (Shown(result.range1) \cup Shown(result.range2)) \cap 1..5 = {}

\* the indices and the length of a trail are within its capacity, and the
\* index is 0 only if nothing was appended since create or the last reset
IndicesInBounds ==
    /\ result.len \in 0..LEN_TRAJECTORY_TRAIL
    /\ result.idx \in 0..LEN_TRAJECTORY_TRAIL
    /\ result.idx = 0 => arg.since = 0
    /\ DOMAIN result.positions = 1..(LEN_TRAJECTORY_TRAIL + 1)

\* the slots of the buffer that a step has written
Written == { i \in 0..LEN_TRAJECTORY_TRAIL : result'.positions[i + 1] # result.positions[i + 1] }

\* C29: after any appends and resets the length and the index are in 0..C;
\* the index is 0 only if nothing was appended since create or the last
\* reset; an append at index C writes the position to slot C and to slot 0
\* and sets the index to 1; every append writes the slot of the index it
\* found, which is in 0..C, and no other slot but slot 0 at the wrap.
C29_RingIndexBounds ==
    [][arg.fn = "reset" =>
          /\ IndicesInBounds
          /\ IndicesInBounds'
          /\ CallAppendPosition =>
                 /\ result'.positions[result.idx + 1] = arg'.n
                 /\ Written \subseteq {result.idx, 0}
                 /\ 0 \in Written => result.idx \in {0, LEN_TRAJECTORY_TRAIL}
                 /\ result.idx = LEN_TRAJECTORY_TRAIL =>
                        /\ result'.positions[LEN_TRAJECTORY_TRAIL + 1] = arg'.n
                        /\ result'.positions[1] = arg'.n
                        /\ result'.idx = 1
                 /\ result.idx < LEN_TRAJECTORY_TRAIL => result'.idx = result.idx + 1]_vars

\* a trail reset after three appends has wrapped: the position appended at
\* index C is in slot C and in slot 0, and the index is 1
C29_Witness ==
    /\ arg.fn = "reset"
    /\ arg.n = LEN_TRAJECTORY_TRAIL + 4
    /\ arg.since = LEN_TRAJECTORY_TRAIL + 1
    /\ result.idx = 1
    /\ result.positions[1] = arg.n
    /\ result.positions[LEN_TRAJECTORY_TRAIL + 1] = arg.n

\* C40: once the trail has wrapped, and until the next reset, slot 0 and
\* slot C of the position buffer hold the same position, the one appended
\* at the last wrap.
C40_SeamInvariant ==
    /\ (arg.fn = "appendPosition" /\ arg.n > LEN_TRAJECTORY_TRAIL) =>
           result.positions[1] = result.positions[LEN_TRAJECTORY_TRAIL + 1]
    /\ (arg.fn = "reset" /\ arg.since > LEN_TRAJECTORY_TRAIL) =>
           result.positions[1] = result.positions[LEN_TRAJECTORY_TRAIL + 1]

\* the trail has wrapped twice: slot 0 and slot C hold the position of the
\* second wrap, and the index has moved on
C40_Witness ==
    /\ arg.fn = "appendPosition"
    /\ arg.n = 2 * LEN_TRAJECTORY_TRAIL + 3
    /\ result.idx = 3
    /\ result.positions[1] = 2 * LEN_TRAJECTORY_TRAIL + 1
    /\ result.positions[LEN_TRAJECTORY_TRAIL + 1] = 2 * LEN_TRAJECTORY_TRAIL + 1

\* the slots that the two draw ranges of a trail show
Visible(spec) ==
    UNION { { i \in 0..LEN_TRAJECTORY_TRAIL : i >= r[1] /\ i < r[1] + r[2] }
            : r \in {spec.range1, spec.range2} }

\* the trail has the indices and the draw ranges of the trail that create
\* made at the last reset, shows the same positions in the same slots, and
\* shows no position appended before that reset
LikeNewTrail ==
    /\ result.idx = arg.fresh.idx
    /\ result.len = arg.fresh.len
    /\ result.range1 = arg.fresh.range1
    /\ result.range2 = arg.fresh.range2
    /\ \A i \in Visible(result) :
          /\ result.positions[i + 1] = arg.fresh.positions[i + 1]
          /\ result.positions[i + 1] > arg.n - arg.since

\* C30: reset sets the index, the length and both draw ranges to 0 and
\* keeps the buffer and what it holds; after a reset in any state the same
\* appends give the indices and the visible segments they give on a trail
\* newly created, and no position appended before the reset is visible.
C30_RingReset ==
    [][arg.fn = "reset" =>
          /\ LikeNewTrail
          /\ LikeNewTrail'
          /\ CallReset =>
                 /\ result'.idx = 0
                 /\ result'.len = 0
                 /\ result'.range1[2] = 0
                 /\ result'.range2[2] = 0
                 /\ result'.positions = result.positions
                 /\ Visible(result') = {}]_vars

\* reset was called after the wrap and two positions were appended since:
\* the two are shown, and the slot after them still holds an older position
C30_Witness ==
    /\ arg.fn = "reset"
    /\ arg.n = LEN_TRAJECTORY_TRAIL + 5
    /\ arg.since = 2
    /\ result.range1 = <<0, 2>>
    /\ result.positions[3] = LEN_TRAJECTORY_TRAIL + 3

\* C31: for every sequence of depth frames of a camera, of any dimensions,
\* the number of points set as the draw range of the point cloud is at most
\* the capacity of the position buffer, its length divided by 3.
C31_PointBufferCapacity ==
    arg.fn = "camera" => 3 * result.drawRange[2] <= Len(result.position)

\* a color frame is present and has the rows and the columns of the depth
\* frame
FrameMatches(spec) ==
    /\ spec.colorImage # Null
    /\ spec.colorDim[1] = spec.depthDim[1]
    /\ spec.colorDim[2] = spec.depthDim[2]

\* every value of the color buffer is 1.0
White(camera) == \A i \in DOMAIN camera.color : camera.color[i] = <<1, 1>>

\* C32: the color buffer of the points is written only when a color frame
\* is present whose rows and columns equal those of the depth frame; when
\* they differ or no color frame has arrived the buffer is left as it was,
\* white from its creation at the first depth frame on.
C32_ColorNeedsMatchingDimensions ==
    [][arg.fn = "camera" =>
          /\ ~FrameMatches(result'.redisgl) =>
                 \/ result'.color = result.color
                 \/ /\ result.redisgl.depthImage = Null
                    /\ arg'.call = "depth"
                    /\ White(result')
          /\ result'.redisgl.colorImage = Null => White(result')]_vars

\* a color frame of other dimensions than the depth frame has arrived at a
\* camera that draws points, and the color buffer is white
C32_Witness ==
    /\ arg.fn = "camera"
    /\ arg.call = "color"
    /\ result.redisgl.intrinsic # Null
    /\ result.redisgl.depthImage # Null
    /\ result.redisgl.colorImage # Null
    /\ result.redisgl.colorDim[1] # result.redisgl.depthDim[1]
    /\ result.drawRange[2] > 0
    /\ result.color # <<>>
    /\ White(result)

\* a step has written the buffers of the point cloud: values of the
\* position or the color buffer, or the draw range
PointCloudWritten ==
    \/ result'.drawRange # result.drawRange
    \/ Len(result'.position) = Len(result.position) /\ result'.position # result.position
    \/ Len(result'.color) = Len(result.color) /\ result'.color # result.color

\* C33: the buffers of the point cloud and the line vertices of the view
\* frame of a camera are written only when, after the step, the intrinsic
\* matrix is known and the depth or the color frame is known; an intrinsic
\* update that arrives before any frame changes neither.
C33_GeometryRecomputeGuard ==
    [][arg.fn = "camera" =>
          /\ (PointCloudWritten \/ result'.frame # result.frame) =>
                 /\ result'.redisgl.intrinsic # Null
                 /\ \/ result'.redisgl.depthImage # Null
                    \/ result'.redisgl.colorImage # Null
          /\ (/\ arg'.call = "intrinsic"
              /\ result.redisgl.depthImage = Null
              /\ result.redisgl.colorImage = Null) =>
                 /\ ~PointCloudWritten
                 /\ result'.frame = result.frame]_vars

\* C39: with a color frame registered to the depth frame, the index that
\* renderPointCloud reads from the color image for a sampled pixel of valid
\* depth and a channel c in 0..2 is within 0 .. rows * cols * channels - 1,
\* also for row 0.
C39_ColorSamplingInBounds ==
    (/\ arg.fn = "camera"
     /\ result.redisgl.intrinsic # Null
     /\ result.redisgl.depthImage # Null
     /\ FrameMatches(result.redisgl)) =>
        \A p \in Range(SamplePoints([depthDim |-> result.redisgl.depthDim,
                                      depthImage |-> result.redisgl.depthImage.v], 0, <<>>)) :
            \A c \in 0..2 :
                ColorIndex(result.redisgl, p[1], p[2], c)
                    \in 0..(result.redisgl.colorDim[1] * result.redisgl.colorDim[2]
                               * result.redisgl.colorDim[3] - 1)

\* the pixels of even row and column whose depth is a finite positive
\* number, in raster order from the pixel of raster index i on
RECURSIVE Sampled(_, _)
Sampled(spec, i) ==
    IF i >= spec.depthDim[1] * spec.depthDim[2] THEN <<>>
    ELSE IF /\ (i \div spec.depthDim[2]) % 2 = 0
            /\ (i % spec.depthDim[2]) % 2 = 0
            /\ spec.depthImage[i + 1] = "1"
    THEN <<<<i \div spec.depthDim[2], i % spec.depthDim[2]>>>> \o Sampled(spec, i + 1)
    ELSE Sampled(spec, i + 1)

\* C15: renderPointCloud emits, in raster order, exactly the pixels of even
\* row and even column whose depth is a finite positive number, and sets the
\* draw range to their number.
C15_PointCloudSampling ==
    (arg.fn = "renderPointCloud" /\ result # <<>>) =>
        /\ result.points = Sampled(arg.spec, 0)
        /\ result.drawRange = <<0, Len(Sampled(arg.spec, 0))>>

\* the joint kind of a body: its joint type letter without its case
JointKind(body) ==
    IF body.redisgl.jointType \in {"R", "r"} THEN "revolute"
    ELSE IF body.redisgl.jointType \in {"P", "p"} THEN "prismatic"
    ELSE "fixed"

\* C16: after updateQ(q), a revolute body has its rest orientation composed
\* with the rotation by q[i] about its joint axis and its rest position, a
\* prismatic body has its rest orientation and its rest position plus
\* jointAxis * q[i], and a body of any other joint kind has its rest
\* orientation and position.
C16_KinematicUpdate ==
    (arg.fn = "updateQ" /\ arg.n > 0) =>
        \A i \in DOMAIN result :
            LET body == result[i]
                rest == body.redisgl
                axis == rest.jointAxis
            IN  /\ JointKind(body) = "revolute" =>
                    /\ body.quaternion
                         = rest.quaternion \o SetFromAxisAngle(axis, arg.q[i])
                    /\ body.position = rest.position
                /\ JointKind(body) = "prismatic" =>
                    /\ body.quaternion = rest.quaternion
                    /\ body.position = <<rest.position[1] + axis[1] * arg.q[i],
                                          rest.position[2] + axis[2] * arg.q[i],
                                          rest.position[3] + axis[3] * arg.q[i]>>
                /\ JointKind(body) = "fixed" =>
                    /\ body.quaternion = rest.quaternion
                    /\ body.position = rest.position

\* a second update of a chain whose revolute body is rotated at rest and whose
\* second body is of an unknown kind, with both joint positions non-zero
C16_Witness ==
    /\ arg.fn = "updateQ" /\ arg.n = 2 /\ arg.q = <<1, -2>>
    /\ result[1].redisgl.jointType = "R" /\ result[1].redisgl.quaternion # <<>>
    /\ Len(result[1].quaternion) = 2
    /\ result[2].redisgl.jointType = "U"
    /\ result[2].position = <<1, 2, 3>>

\* C34: the transforms of the bodies after updateQ(q) are those of updateQ(q)
\* on the robot as it was created, whatever updates came before, and a
\* second updateQ(q) with the same q leaves them as they are.
C34_KinematicUpdateDoesNotAccumulate ==
    (arg.fn = "updateQ" /\ arg.n > 0) =>
        /\ result = UpdateQ(arg.robot, arg.q)
        /\ UpdateQ(result, arg.q) = result

\* a revolute and a prismatic body, rotated and translated at rest, were
\* updated with non-zero joint positions and then with other ones
C34_Witness ==
    /\ arg.fn = "updateQ" /\ arg.n = 2
    /\ arg.before = <<1, 1>> /\ arg.q = <<-2, -2>>
    /\ result[1].redisgl.jointType = "R" /\ result[1].redisgl.quaternion # <<>>
    /\ result[2].redisgl.jointType = "p" /\ result[2].redisgl.position = <<1, 2, 3>>
    /\ result[2].position = <<1, 0, 3>>

\* C37: parsing the header of an image payload ends for every payload, also
\* one whose type or size token is empty or has no space after it before
\* the payload ends: it gives the image or raises an error, and it raises
\* an error when the payload holds fewer than the two spaces of a header.
C37_HeaderParsingTerminates ==
    (arg.fn = "parseOpenCvMat" /\ result # <<>>) =>
        /\ result.st \in {"ok", "throw"}
        /\ Cardinality({ i \in DOMAIN arg.buffer : arg.buffer[i] = 32 }) < 2 =>
               result.st = "throw"

\* the header of the payload of a call of parsePayload, read off the buffer:
\* its size in bytes and the length it declares (the header is complete and
\* the length below 2^24 in every buffer of PayloadBuffers but the one cut
\* inside its length field)
HeaderSize ==
    IF arg.buffer[arg.idx + 2] < 126 THEN 2
    ELSE IF arg.buffer[arg.idx + 2] = 126 THEN 4 ELSE 10

DeclaredLength ==
    LET at == arg.idx + 2
        b == arg.buffer
    IN  IF b[at] < 126 THEN b[at]
        ELSE IF b[at] = 126 THEN b[at + 1] * 256 + b[at + 2]
        ELSE b[at + 6] * 65536 + b[at + 7] * 256 + b[at + 8]

HeaderComplete ==
    /\ Len(arg.buffer) >= arg.idx + 2
    /\ Len(arg.buffer) >= arg.idx + HeaderSize

\* C17: parsePayload looks at the low 7 bits of the tag only; tag 1 gives a
\* string of one character per payload byte, tag 2 a binary blob of exactly
\* the declared length, and with any other tag decoding fails.
C17_PayloadTypeTag ==
    (arg.fn = "parsePayload" /\ result # <<>> /\ HeaderComplete) =>
        LET type == arg.buffer[arg.idx + 1] % 128
            start == arg.idx + HeaderSize
        IN  /\ type \notin {1, 2} => result.st # "ok"
            /\ type \in {1, 2} => result.st \in {"ok", "throw"}
            /\ (type = 1 /\ result.st = "ok") =>
                   result.val = Text(SubSeq(arg.buffer, start + 1, start + DeclaredLength))
            /\ (type = 2 /\ result.st = "ok") =>
                   /\ result.val.t = "binary"
                   /\ Len(result.val.v) = DeclaredLength

\* C18: a first length byte below 126 is the length, 126 announces a length of
\* 2 bytes and 127 one of 8 bytes, both big-endian, and the index returned is
\* the start index plus 2, 4 or 10 plus the length.
C18_PayloadLengthTiers ==
    (arg.fn = "parsePayload" /\ result # <<>> /\ HeaderComplete) =>
        /\ result.st = "ok" => result.idx = arg.idx + HeaderSize + DeclaredLength
        /\ (result.st = "ok" /\ result.val.t = "string") =>
               Len(result.val.v) = DeclaredLength
        /\ (result.st = "throw") => arg.idx + HeaderSize + DeclaredLength > Len(arg.buffer)

\* a payload at offset 1 whose length 256 is written on two bytes
C18_Witness ==
    /\ arg.fn = "parsePayload" /\ arg.idx = 1
    /\ Len(arg.buffer) >= 5
    /\ SubSeq(arg.buffer, 3, 5) = <<126, 1, 0>>
    /\ result # <<>> /\ result.st = "ok" /\ result.idx = 261

=============================================================================
